---- MODULE Spec2Model ----
(***************************************************************************)
(* State-machine model of the Avenox deployment platform:                  *)
(*   - avenox::deployment_registry   (Move, on-chain)                      *)
(*   - avenox::subscription_manager  (Move, on-chain)                      *)
(*   - the client orchestration (ContractService, useDeployment hook,      *)
(*     QuickDeployModalV2.handleDeploy)                                    *)
(* Every Move entry function is a pure operator from the shared object and *)
(* the call's arguments to the new shared object, the abort code (0 when   *)
(* the transaction commits) and the events it emits; an aborted            *)
(* transaction leaves the shared object as it was.                         *)
(***************************************************************************)
EXTENDS Integers, Sequences, FiniteSets, TLC

VARIABLES
    registry,   \* the shared DeploymentRegistry object
    subs,       \* the shared SubscriptionRegistry object
    trackers,   \* the UsageTracker object each subscriber owns
    treasury,   \* amount of the coins transferred to the treasury address, by module and payer
    now,        \* sui::clock timestamp_ms
    result,     \* effects of the last transaction: entry function, abort code, events
    hook,       \* React state of useDeployment
    modal,      \* React state of QuickDeployModalV2
    wallet,     \* useCurrentAccount(): the connected wallet's address, if any
    run,        \* the deployment call in flight: its position and its local variables
    other,      \* a second call of deployWithContract made while `run` is in flight
    processor,  \* the shared PaymentProcessor object
    transfers,  \* amount of the coins the payment processor transferred out, by coin and recipient
    storage,    \* localStorage: the item stored under 'aveno_deployments', if any
    cetus,      \* the shared PaymentProcessorCetus object
    router,     \* the shared SwapRouter object
    cetus_transfers \* amount of the coins the Cetus processor transferred out, by recipient

cetus_objects == <<cetus, router, cetus_transfers>>
chain == <<registry, subs, trackers, treasury, now, result, processor, transfers, cetus_objects>>
client == <<hook, modal, wallet, run, other, storage>>
vars == <<registry, subs, trackers, treasury, now, result, hook, modal, wallet, run, other,
          processor, transfers, storage, cetus, router, cetus_transfers>>

(***************************************************************************)
(* Bounds of the model                                                     *)
(***************************************************************************)
MaxDeployments == 2     \* deployment records the registry may hold
MaxPayments == 2        \* payment records held by all subscriptions together
MaxUsage == 1           \* deployments recorded by all usage trackers together
MaxPeriodUsage == 11    \* deployments recorded by the one subscriber of SpecUsage

Users == {"u1", "u2"}
Repos == {"repoA", "repoB"}

(***************************************************************************)
(* deployment_registry: constants                                          *)
(***************************************************************************)
STATUS_PENDING == 0
STATUS_PROCESSING == 1
STATUS_DEPLOYED == 2
STATUS_FAILED == 3

E_INSUFFICIENT_PAYMENT == 1001
E_UNAUTHORIZED == 1003
E_INVALID_STATUS == 1004
\* abort of sui::table::borrow / borrow_mut on a key the table does not hold
E_FIELD_DOES_NOT_EXIST == 1

MIN_PAYMENT_USDC == 5000000

TYPE_REGULAR == 0
TYPE_ROLLBACK == 2

\* Option<ID>: a vector of zero or one element
none == <<>>
some(x) == <<x>>

\* 30 days.  The source counts milliseconds (2592000000); the model counts the clock
\* in seconds, every timestamp being a whole number of seconds, because the model
\* checker's integers are 32 bits wide.  Timestamps are only added and compared.
SECONDS_IN_MONTH == 2592000
HalfMonth == SECONDS_IN_MONTH \div 2

\* clock readings the transactions of a run may see
RegTimes == {HalfMonth, 2 * HalfMonth}
SubTimes == {HalfMonth, 3 * HalfMonth, 4 * HalfMonth}

\* payment coins a caller may attach to a deployment or rollback request
RegPayments == {MIN_PAYMENT_USDC - 1, MIN_PAYMENT_USDC}
EstimatedWal == {100}
SiteIds == {"site1"}
ActualWal == {7}
ErrorMessages == {"build failed"}

Committed(reg, events) == [reg |-> reg, err |-> 0, events |-> events]
Aborted(reg, code) == [reg |-> reg, err |-> code, events |-> <<>>]

(***************************************************************************)
(* deployment_registry::init                                               *)
(***************************************************************************)
registry_init ==
    [ user_deployments     |-> <<>>,   \* Table<address, vector<ID>>
      deployments          |-> <<>>,   \* Table<ID, DeploymentRecord>; the n-th object::new is ID n
      total_deployments    |-> 0,
      total_usdc_collected |-> 0,
      min_payment_usdc     |-> MIN_PAYMENT_USDC ]

contains(table, key) == key \in DOMAIN table

\* table::add that leaves a key the table holds as it is
put_if_absent(table, key, value) ==
    [k \in DOMAIN table \cup {key} |-> IF k \in DOMAIN table THEN table[k] ELSE value]

\* table::add of a key the table does not hold yet, or overwrite of a borrowed entry
put(table, key, value) ==
    [k \in DOMAIN table \cup {key} |-> IF k = key THEN value ELSE table[k]]

(***************************************************************************)
(* deployment_registry::get_next_version                                   *)
(***************************************************************************)
RECURSIVE version_loop(_, _, _, _, _)
version_loop(reg, user_deployments, repo_url, i, version) ==
    IF i < Len(user_deployments)
    THEN LET deployment_id == user_deployments[i + 1]
             deployment == reg.deployments[deployment_id]
         IN  version_loop(reg, user_deployments, repo_url, i + 1,
                          IF deployment.repo_url = repo_url THEN version + 1 ELSE version)
    ELSE version

\* get_next_version that counts only regular records that did not fail
next_version_of_live(reg, repo_url, user) ==
    1 + Cardinality({id \in DOMAIN reg.deployments :
                       /\ reg.deployments[id].user = user
                       /\ reg.deployments[id].repo_url = repo_url
                       /\ reg.deployments[id].status # STATUS_FAILED
                       /\ reg.deployments[id].deployment_type # TYPE_ROLLBACK})

get_next_version(reg, repo_url, user) ==
    IF ~contains(reg.user_deployments, user)
    THEN 1
    ELSE version_loop(reg, reg.user_deployments[user], repo_url, 0, 1)

(***************************************************************************)
(* deployment_registry::request_deployment                                 *)
(***************************************************************************)
\* the body of request_deployment after its assertion
requested(reg, user, payment_amount, repo_url, estimated_wal, clock) ==
    LET deployment_id == Len(reg.deployments) + 1
        record ==
            [ deployment_id        |-> deployment_id,
              user                 |-> user,
              repo_url             |-> repo_url,
              commit_hash          |-> "HEAD",
              branch               |-> "main",
              walrus_site_id       |-> "",
              usdc_paid            |-> payment_amount,
              estimated_wal        |-> estimated_wal,
              actual_wal_used      |-> 0,
              created_at           |-> clock,
              deployed_at          |-> 0,
              status               |-> STATUS_PENDING,
              build_command        |-> "npm run build",
              output_dir           |-> "dist",
              version              |-> get_next_version(reg, repo_url, user),
              error_message        |-> "",
              environment          |-> "production",
              deployment_type      |-> TYPE_REGULAR,
              parent_deployment_id |-> none ]
        user_list == IF contains(reg.user_deployments, user)
                     THEN reg.user_deployments[user] ELSE <<>>
    IN  Committed(
          [reg EXCEPT
             !.deployments = Append(@, record),
             !.user_deployments = put(@, user, Append(user_list, deployment_id)),
             !.total_deployments = @ + 1,
             !.total_usdc_collected = @ + payment_amount],
          << [type |-> "DeploymentCreated", deployment_id |-> deployment_id, user |-> user,
              repo_url |-> repo_url, usdc_paid |-> payment_amount, timestamp |-> clock] >>)

\* request_deployment without its payment assertion
request_deployment_unpaid(reg, user, payment_amount, repo_url, estimated_wal, clock) ==
    requested(reg, user, payment_amount, repo_url, estimated_wal, clock)

request_deployment(reg, user, payment_amount, repo_url, estimated_wal, clock) ==
    IF ~(payment_amount >= reg.min_payment_usdc)
    THEN Aborted(reg, E_INSUFFICIENT_PAYMENT)
    ELSE requested(reg, user, payment_amount, repo_url, estimated_wal, clock)

(***************************************************************************)
(* deployment_registry::mark_processing / mark_deployed / mark_failed      *)
(***************************************************************************)
mark_processing(reg, deployment_id) ==
    IF ~contains(reg.deployments, deployment_id)
    THEN Aborted(reg, E_FIELD_DOES_NOT_EXIST)
    ELSE IF ~(reg.deployments[deployment_id].status = STATUS_PENDING)
    THEN Aborted(reg, E_INVALID_STATUS)
    ELSE Committed([reg EXCEPT !.deployments[deployment_id].status = STATUS_PROCESSING], <<>>)

\* mark_deployed without its status assertion
mark_deployed_from_any(reg, deployment_id, walrus_site_id, actual_wal_used, clock) ==
    IF ~contains(reg.deployments, deployment_id)
    THEN Aborted(reg, E_FIELD_DOES_NOT_EXIST)
    ELSE Committed(
           [reg EXCEPT !.deployments[deployment_id] =
              [@ EXCEPT !.status = STATUS_DEPLOYED,
                        !.walrus_site_id = walrus_site_id,
                        !.actual_wal_used = actual_wal_used,
                        !.deployed_at = clock]],
           << [type |-> "DeploymentCompleted", deployment_id |-> deployment_id,
               walrus_site_id |-> walrus_site_id, actual_wal_used |-> actual_wal_used,
               timestamp |-> clock] >>)

mark_deployed(reg, deployment_id, walrus_site_id, actual_wal_used, clock) ==
    IF ~contains(reg.deployments, deployment_id)
    THEN Aborted(reg, E_FIELD_DOES_NOT_EXIST)
    ELSE IF ~(reg.deployments[deployment_id].status = STATUS_PROCESSING)
    THEN Aborted(reg, E_INVALID_STATUS)
    ELSE Committed(
           [reg EXCEPT !.deployments[deployment_id] =
              [@ EXCEPT !.status = STATUS_DEPLOYED,
                        !.walrus_site_id = walrus_site_id,
                        !.actual_wal_used = actual_wal_used,
                        !.deployed_at = clock]],
           << [type |-> "DeploymentCompleted", deployment_id |-> deployment_id,
               walrus_site_id |-> walrus_site_id, actual_wal_used |-> actual_wal_used,
               timestamp |-> clock] >>)

mark_failed(reg, deployment_id, error_message, clock) ==
    IF ~contains(reg.deployments, deployment_id)
    THEN Aborted(reg, E_FIELD_DOES_NOT_EXIST)
    ELSE Committed(
           [reg EXCEPT !.deployments[deployment_id] =
              [@ EXCEPT !.status = STATUS_FAILED,
                        !.error_message = error_message]],
           << [type |-> "DeploymentFailed", deployment_id |-> deployment_id,
               error_message |-> error_message, timestamp |-> clock] >>)

(***************************************************************************)
(* deployment_registry::request_rollback_deployment                        *)
(***************************************************************************)
\* a rollback stored as a regular request for the parent's repository
rollback_as_request(reg, user, payment_amount, parent_deployment_id, clock) ==
    requested(reg, user, payment_amount, reg.deployments[parent_deployment_id].repo_url,
              reg.deployments[parent_deployment_id].estimated_wal, clock)

\* the body of request_rollback_deployment after its assertions
rollback_record(reg, user, payment_amount, parent_deployment_id, clock) ==
    LET parent == reg.deployments[parent_deployment_id]
        deployment_id == Len(reg.deployments) + 1
        record ==
            [ deployment_id        |-> deployment_id,
              user                 |-> user,
              repo_url             |-> parent.repo_url,
              commit_hash          |-> parent.commit_hash,
              branch               |-> parent.branch,
              walrus_site_id       |-> "",
              usdc_paid            |-> payment_amount,
              estimated_wal        |-> parent.estimated_wal,
              actual_wal_used      |-> 0,
              created_at           |-> clock,
              deployed_at          |-> 0,
              status               |-> STATUS_PENDING,
              build_command        |-> parent.build_command,
              output_dir           |-> parent.output_dir,
              version              |-> parent.version,
              error_message        |-> "",
              environment          |-> parent.environment,
              deployment_type      |-> TYPE_ROLLBACK,
              parent_deployment_id |-> some(parent_deployment_id) ]
    IN  \* table::borrow_mut(&mut registry.user_deployments, user): the parent's
        \* owner always has a list
        Committed(
          [reg EXCEPT
             !.deployments = Append(@, record),
             !.user_deployments[user] = Append(@, deployment_id),
             !.total_deployments = @ + 1],
          <<>>)

\* request_rollback_deployment without its ownership assertion
rollback_by_anyone(reg, user, payment_amount, parent_deployment_id, clock) ==
    IF ~contains(reg.deployments, parent_deployment_id)
    THEN Aborted(reg, E_FIELD_DOES_NOT_EXIST)
    ELSE rollback_record(reg, user, payment_amount, parent_deployment_id, clock)

request_rollback_deployment(reg, user, payment_amount, parent_deployment_id, clock) ==
    IF ~contains(reg.deployments, parent_deployment_id)
    THEN Aborted(reg, E_FIELD_DOES_NOT_EXIST)
    ELSE IF ~(reg.deployments[parent_deployment_id].user = user)
    THEN Aborted(reg, E_UNAUTHORIZED)
    ELSE rollback_record(reg, user, payment_amount, parent_deployment_id, clock)

(***************************************************************************)
(* View functions                                                          *)
(***************************************************************************)
get_user_deployments(reg, user) ==
    IF contains(reg.user_deployments, user) THEN reg.user_deployments[user] ELSE <<>>

get_total_deployments(reg) == reg.total_deployments

get_total_revenue(reg) == reg.total_usdc_collected

(***************************************************************************)
(* subscription_manager: constants and init                                *)
(***************************************************************************)
SUB_E_INSUFFICIENT_PAYMENT == 3001
SUB_E_SUBSCRIPTION_NOT_FOUND == 3002
SUB_E_ALREADY_SUBSCRIBED == 3003
SUB_E_INVALID_TIER == 3005
\* abort of sui::table::add on a key the table already holds
E_FIELD_ALREADY_EXISTS == 0

TIER_FREE == 0
TIER_STARTER == 1
TIER_GROWTH == 2
TIER_ENTERPRISE == 3

\* a Move vector<u64>, indexed from 0
vec4(a, b, c, d) == [i \in 0..3 |-> CASE i = 0 -> a [] i = 1 -> b [] i = 2 -> c [] i = 3 -> d]

subscription_init ==
    [ subscriptions        |-> <<>>,   \* Table<address, Subscription>
      total_revenue        |-> 0,
      active_subscriptions |-> vec4(0, 0, 0, 0),
      tier_prices          |-> vec4(0, 10000000, 50000000, 200000000),
      deployment_limits    |-> vec4(3, 10, 100, 9999),
      bandwidth_limits     |-> vec4(100, 1000, 10000, 99999) ]

SubCommitted(reg, tracker, events) ==
    [reg |-> reg, tracker |-> tracker, err |-> 0, events |-> events]
SubAborted(reg, tracker, code) ==
    [reg |-> reg, tracker |-> tracker, err |-> code, events |-> <<>>]

\* no UsageTracker object
no_tracker == <<>>

(***************************************************************************)
(* subscription_manager::subscribe                                         *)
(***************************************************************************)
\* the body of subscribe after its assertions
new_subscription(reg, user, payment_amount, tier, auto_renew, clock) ==
    LET current_time == clock
        end_date == current_time + SECONDS_IN_MONTH
        payment_record == [amount |-> payment_amount, timestamp |-> current_time, tier |-> tier]
        subscription ==
            [ user             |-> user,
              tier             |-> tier,
              start_date       |-> current_time,
              end_date         |-> end_date,
              deployments_used |-> 0,
              bandwidth_used   |-> 0,
              auto_renew       |-> auto_renew,
              payment_history  |-> <<payment_record>>,
              total_spent      |-> payment_amount ]
        tracker ==
            [ user                      |-> user,
              current_month_deployments |-> 0,
              current_month_bandwidth   |-> 0,
              deployment_history        |-> {},
              last_reset                |-> current_time ]
    IN  SubCommitted(
          [reg EXCEPT
             !.subscriptions = put(@, user, subscription),
             !.active_subscriptions[tier] = @ + 1,
             !.total_revenue = @ + payment_amount],
          tracker,
          << [type |-> "SubscriptionCreated", user |-> user, tier |-> tier,
              amount |-> payment_amount, end_date |-> end_date] >>)

\* subscribe without its payment assertion
subscribe_any_payment(reg, user, payment_amount, tier, auto_renew, clock) ==
    IF ~(tier > 0 /\ tier <= 3)
    THEN SubAborted(reg, no_tracker, SUB_E_INVALID_TIER)
    ELSE IF ~(~contains(reg.subscriptions, user))
    THEN SubAborted(reg, no_tracker, SUB_E_ALREADY_SUBSCRIBED)
    ELSE new_subscription(reg, user, payment_amount, tier, auto_renew, clock)

\* subscribe without its assertion that the caller has no subscription
subscribe_again(reg, user, payment_amount, tier, auto_renew, clock) ==
    IF ~(tier > 0 /\ tier <= 3)
    THEN SubAborted(reg, no_tracker, SUB_E_INVALID_TIER)
    ELSE IF ~(payment_amount >= reg.tier_prices[tier])
    THEN SubAborted(reg, no_tracker, SUB_E_INSUFFICIENT_PAYMENT)
    ELSE new_subscription(reg, user, payment_amount, tier, auto_renew, clock)

subscribe(reg, user, payment_amount, tier, auto_renew, clock) ==
    IF ~(tier > 0 /\ tier <= 3)
    THEN SubAborted(reg, no_tracker, SUB_E_INVALID_TIER)
    ELSE IF ~(~contains(reg.subscriptions, user))
    THEN SubAborted(reg, no_tracker, SUB_E_ALREADY_SUBSCRIBED)
    ELSE IF ~(payment_amount >= reg.tier_prices[tier])
    THEN SubAborted(reg, no_tracker, SUB_E_INSUFFICIENT_PAYMENT)
    ELSE new_subscription(reg, user, payment_amount, tier, auto_renew, clock)

(***************************************************************************)
(* subscription_manager::renew_subscription                                *)
(***************************************************************************)
\* a renewal that adds the payment to total_spent without a PaymentRecord
renewed_unrecorded(reg, user, payment_amount, clock, new_end_date) ==
    SubCommitted(
      [reg EXCEPT
         !.subscriptions[user] =
            [@ EXCEPT !.end_date = new_end_date,
                      !.deployments_used = 0,
                      !.bandwidth_used = 0,
                      !.total_spent = @ + payment_amount],
         !.total_revenue = @ + payment_amount],
      no_tracker,
      << [type |-> "SubscriptionRenewed", user |-> user, tier |-> reg.subscriptions[user].tier,
          amount |-> payment_amount, new_end_date |-> new_end_date] >>)

\* the body of renew_subscription after its assertions, given the new end date
renewed(reg, user, payment_amount, clock, new_end_date) ==
    LET tier == reg.subscriptions[user].tier
        payment_record == [amount |-> payment_amount, timestamp |-> clock, tier |-> tier]
    IN  SubCommitted(
          [reg EXCEPT
             !.subscriptions[user] =
                [@ EXCEPT !.end_date = new_end_date,
                          !.deployments_used = 0,
                          !.bandwidth_used = 0,
                          !.payment_history = Append(@, payment_record),
                          !.total_spent = @ + payment_amount],
             !.total_revenue = @ + payment_amount],
          no_tracker,
          << [type |-> "SubscriptionRenewed", user |-> user, tier |-> tier,
              amount |-> payment_amount, new_end_date |-> new_end_date] >>)

\* renew_subscription that always restarts the period from the current time
renew_from_now(reg, user, payment_amount, clock) ==
    IF ~contains(reg.subscriptions, user)
    THEN SubAborted(reg, no_tracker, SUB_E_SUBSCRIPTION_NOT_FOUND)
    ELSE IF ~(payment_amount >= reg.tier_prices[reg.subscriptions[user].tier])
    THEN SubAborted(reg, no_tracker, SUB_E_INSUFFICIENT_PAYMENT)
    ELSE renewed(reg, user, payment_amount, clock, clock + SECONDS_IN_MONTH)

renew_subscription(reg, user, payment_amount, clock) ==
    IF ~contains(reg.subscriptions, user)
    THEN SubAborted(reg, no_tracker, SUB_E_SUBSCRIPTION_NOT_FOUND)
    ELSE
    LET subscription == reg.subscriptions[user]
        tier == subscription.tier
    IN
    IF ~(payment_amount >= reg.tier_prices[tier])
    THEN SubAborted(reg, no_tracker, SUB_E_INSUFFICIENT_PAYMENT)
    ELSE
    LET current_time == clock
        new_end_date == IF current_time > subscription.end_date
                        THEN current_time + SECONDS_IN_MONTH
                        ELSE subscription.end_date + SECONDS_IN_MONTH
    IN  renewed(reg, user, payment_amount, current_time, new_end_date)

(***************************************************************************)
(* subscription_manager::can_deploy                                        *)
(***************************************************************************)
\* can_deploy that counts the last moment of the period as expired
can_deploy_before_end(reg, user, clock) ==
    IF ~contains(reg.subscriptions, user)
    THEN TRUE
    ELSE LET subscription == reg.subscriptions[user] IN
         IF clock >= subscription.end_date
         THEN FALSE
         ELSE subscription.deployments_used < reg.deployment_limits[subscription.tier]

can_deploy(reg, user, clock) ==
    IF ~contains(reg.subscriptions, user)
    THEN TRUE
    ELSE LET subscription == reg.subscriptions[user] IN
         IF clock > subscription.end_date
         THEN FALSE
         ELSE subscription.deployments_used < reg.deployment_limits[subscription.tier]

(***************************************************************************)
(* subscription_manager::record_deployment                                 *)
(***************************************************************************)
\* record_deployment that fills the tracker and leaves the subscription's usage
\* counters alone
record_uncounted(reg, tracker, user, deployment_id, bandwidth_mb, clock) ==
    IF deployment_id \in tracker.deployment_history
    THEN SubAborted(reg, tracker, E_FIELD_ALREADY_EXISTS)
    ELSE SubCommitted(
           reg,
           [tracker EXCEPT
              !.deployment_history = @ \cup {deployment_id},
              !.current_month_deployments = @ + 1,
              !.current_month_bandwidth = @ + bandwidth_mb],
           <<>>)

record_deployment(reg, tracker, user, deployment_id, bandwidth_mb, clock) ==
    LET counted ==
            IF contains(reg.subscriptions, user)
            THEN [reg EXCEPT !.subscriptions[user] =
                    [@ EXCEPT !.deployments_used = @ + 1,
                              !.bandwidth_used = @ + bandwidth_mb]]
            ELSE reg
        exceeded ==
            IF contains(reg.subscriptions, user)
            THEN LET subscription == counted.subscriptions[user]
                     deployment_limit == reg.deployment_limits[subscription.tier]
                     bandwidth_limit == reg.bandwidth_limits[subscription.tier]
                 IN  (IF subscription.deployments_used > deployment_limit
                      THEN << [type |-> "UsageExceeded", user |-> user,
                               limit_type |-> "deployments",
                               current_usage |-> subscription.deployments_used,
                               limit |-> deployment_limit] >>
                      ELSE <<>>)
                     \o
                     (IF subscription.bandwidth_used > bandwidth_limit
                      THEN << [type |-> "UsageExceeded", user |-> user,
                               limit_type |-> "bandwidth",
                               current_usage |-> subscription.bandwidth_used,
                               limit |-> bandwidth_limit] >>
                      ELSE <<>>)
            ELSE <<>>
    IN
    IF deployment_id \in tracker.deployment_history
    THEN SubAborted(reg, tracker, E_FIELD_ALREADY_EXISTS)
    ELSE SubCommitted(
           counted,
           [tracker EXCEPT
              !.deployment_history = @ \cup {deployment_id},
              !.current_month_deployments = @ + 1,
              !.current_month_bandwidth = @ + bandwidth_mb],
           exceeded)

(***************************************************************************)
(* subscription_manager::upgrade_tier                                      *)
(***************************************************************************)
\* an upgrade that counts the new tier and leaves the count of the old tier
upgraded_leaving_count(reg, user, new_tier) ==
    SubCommitted(
       [reg EXCEPT
          !.active_subscriptions = [@ EXCEPT ![new_tier] = @ + 1],
          !.subscriptions[user].tier = new_tier],
       no_tracker,
       <<>>)

\* the body of upgrade_tier after its assertions
upgraded(reg, user, new_tier) ==
    LET old_tier == reg.subscriptions[user].tier
    IN  SubCommitted(
           [reg EXCEPT
              !.active_subscriptions =
                 [[@ EXCEPT ![old_tier] = @ - 1] EXCEPT ![new_tier] = @ + 1],
              !.subscriptions[user].tier = new_tier],
           no_tracker,
           <<>>)

\* upgrade_tier that asks for the full price of the new tier
upgrade_full_price(reg, user, payment_amount, new_tier) ==
    IF ~(new_tier > 0 /\ new_tier <= 3)
    THEN SubAborted(reg, no_tracker, SUB_E_INVALID_TIER)
    ELSE IF ~contains(reg.subscriptions, user)
    THEN SubAborted(reg, no_tracker, SUB_E_SUBSCRIPTION_NOT_FOUND)
    ELSE IF ~(new_tier > reg.subscriptions[user].tier)
    THEN SubAborted(reg, no_tracker, SUB_E_INVALID_TIER)
    ELSE IF ~(payment_amount >= reg.tier_prices[new_tier])
    THEN SubAborted(reg, no_tracker, SUB_E_INSUFFICIENT_PAYMENT)
    ELSE upgraded(reg, user, new_tier)

upgrade_tier(reg, user, payment_amount, new_tier) ==
    IF ~(new_tier > 0 /\ new_tier <= 3)
    THEN SubAborted(reg, no_tracker, SUB_E_INVALID_TIER)
    ELSE IF ~contains(reg.subscriptions, user)
    THEN SubAborted(reg, no_tracker, SUB_E_SUBSCRIPTION_NOT_FOUND)
    ELSE
    LET subscription == reg.subscriptions[user]
        old_tier == subscription.tier
    IN
    IF ~(new_tier > old_tier)
    THEN SubAborted(reg, no_tracker, SUB_E_INVALID_TIER)
    ELSE
    LET new_price == reg.tier_prices[new_tier]
        old_price == reg.tier_prices[old_tier]
        price_diff == new_price - old_price
    IN
    IF ~(payment_amount >= price_diff)
    THEN SubAborted(reg, no_tracker, SUB_E_INSUFFICIENT_PAYMENT)
    ELSE upgraded(reg, user, new_tier)

(***************************************************************************)
(* subscription_manager::cancel_subscription                               *)
(***************************************************************************)
\* a cancellation that also ends the period at the current time
cancel_ending_now(reg, user, clock) ==
    IF ~contains(reg.subscriptions, user)
    THEN SubAborted(reg, no_tracker, SUB_E_SUBSCRIPTION_NOT_FOUND)
    ELSE SubCommitted(
           [reg EXCEPT !.subscriptions[user].auto_renew = FALSE,
                       !.subscriptions[user].end_date = clock],
           no_tracker,
           << [type |-> "SubscriptionCancelled", user |-> user,
               tier |-> reg.subscriptions[user].tier, timestamp |-> clock] >>)

\* a cancellation that also clears the usage of the period
cancel_clearing_usage(reg, user, clock) ==
    IF ~contains(reg.subscriptions, user)
    THEN SubAborted(reg, no_tracker, SUB_E_SUBSCRIPTION_NOT_FOUND)
    ELSE SubCommitted(
           [reg EXCEPT !.subscriptions[user].auto_renew = FALSE,
                       !.subscriptions[user].deployments_used = 0,
                       !.subscriptions[user].bandwidth_used = 0],
           no_tracker,
           << [type |-> "SubscriptionCancelled", user |-> user,
               tier |-> reg.subscriptions[user].tier, timestamp |-> clock] >>)

cancel_subscription(reg, user, clock) ==
    IF ~contains(reg.subscriptions, user)
    THEN SubAborted(reg, no_tracker, SUB_E_SUBSCRIPTION_NOT_FOUND)
    ELSE SubCommitted(
           [reg EXCEPT !.subscriptions[user].auto_renew = FALSE],
           no_tracker,
           << [type |-> "SubscriptionCancelled", user |-> user,
               tier |-> reg.subscriptions[user].tier, timestamp |-> clock] >>)

(***************************************************************************)
(* subscription_manager: view functions                                    *)
(***************************************************************************)
has_active_subscription(reg, user, clock) ==
    IF ~contains(reg.subscriptions, user)
    THEN FALSE
    ELSE clock <= reg.subscriptions[user].end_date

(***************************************************************************)
(* Client state before any call                                            *)
(***************************************************************************)
\* useState<DeploymentState>({ isDeploying: false, deploymentStatus: 'idle' })
hook_init == [isDeploying |-> FALSE, deploymentStatus |-> "idle", error |-> none]

\* the useState initial values of QuickDeployModalV2; the dialog starts closed
modal_init ==
    [ open          |-> FALSE,
      step          |-> "loading",
      selectedRepo  |-> none,
      paymentMethod |-> "blockchain",
      errorMessage  |-> none ]

\* no deployment call in flight
run_idle ==
    [ pc        |-> "idle",
      call      |-> "none",    \* deployWithUSDC or deployWithContract
      account   |-> none,      \* the wallet address the call captured
      inspected |-> none,      \* what canDeploy's devInspect call came back with
      coins     |-> <<>>,      \* balances of the wallet's USDC coin objects
      request   |-> none,      \* the DeploymentRequest
      tx        |-> "none",    \* effects status of the submitted transaction
      i         |-> 0,         \* waitForTransaction's retry counter
      result    |-> none,      \* the DeploymentResult returned to the caller
      confirmed |-> none,      \* waitForTransaction's return value
      backend   |-> "none" ]   \* the POST to the build backend and its response

(***************************************************************************)
(* payment_processor: the PaymentProcessor object and its entry functions  *)
(***************************************************************************)
PAY_E_INSUFFICIENT_BALANCE == 2001
AUTO_SWAP_THRESHOLD == 100000000
SLIPPAGE_TOLERANCE_BPS == 300
\* abort of vector::destroy_empty on a vector that still holds elements
DESTROY_NON_EMPTY_VEC == 3

\* init_processor
processor_init ==
    [ treasury_address       |-> "0x1234",
      usdc_buffer            |-> 0,
      wal_buffer             |-> 0,
      auto_swap_threshold    |-> AUTO_SWAP_THRESHOLD,
      total_usdc_processed   |-> 0,
      total_wal_distributed  |-> 0,
      slippage_tolerance_bps |-> SLIPPAGE_TOLERANCE_BPS,
      pool_address           |-> "0x5678" ]

\* coins that left the processor by transfer::public_transfer
transfers_init == [usdc_to_treasury |-> 0, usdc_to_sender |-> 0, wal_to_treasury |-> 0]

PayCommitted(p, t, events) == [processor |-> p, transfers |-> t, err |-> 0, events |-> events]
PayAborted(p, t, code) == [processor |-> p, transfers |-> t, err |-> code, events |-> <<>>]

\* process_payment that joins the coin without counting it
process_payment_uncounted(p, t, user, usdc_amount, deployment_id, clock) ==
    PayCommitted(
      [p EXCEPT !.usdc_buffer = @ + usdc_amount],
      t,
      << [type |-> "PaymentProcessed", user |-> user, usdc_amount |-> usdc_amount,
          deployment_id |-> deployment_id, timestamp |-> clock] >>)

process_payment(p, t, user, usdc_amount, deployment_id, clock) ==
    PayCommitted(
      [p EXCEPT !.usdc_buffer = @ + usdc_amount,
                !.total_usdc_processed = @ + usdc_amount],
      t,
      << [type |-> "PaymentProcessed", user |-> user, usdc_amount |-> usdc_amount,
          deployment_id |-> deployment_id, timestamp |-> clock] >>)

simulate_swap(p, t, wal_amount, clock) ==
    LET swap_amount == p.usdc_buffer IN
    IF ~(swap_amount > 0)
    THEN PayAborted(p, t, PAY_E_INSUFFICIENT_BALANCE)
    ELSE PayCommitted(
           [p EXCEPT !.wal_buffer = @ + wal_amount,
                     !.usdc_buffer = @ - swap_amount],
           [t EXCEPT !.usdc_to_treasury = @ + swap_amount],
           << [type |-> "SwapExecuted", usdc_amount |-> swap_amount,
               wal_received |-> wal_amount,
               swap_rate |-> (wal_amount * 1000000) \div swap_amount,
               timestamp |-> clock] >>)

transfer_wal_to_treasury(p, t, amount, clock) ==
    IF ~(p.wal_buffer >= amount)
    THEN PayAborted(p, t, PAY_E_INSUFFICIENT_BALANCE)
    ELSE PayCommitted(
           [p EXCEPT !.wal_buffer = @ - amount,
                     !.total_wal_distributed = @ + amount],
           [t EXCEPT !.wal_to_treasury = @ + amount],
           << [type |-> "WALTransferred", recipient |-> p.treasury_address,
               amount |-> amount, purpose |-> "deployment_funding",
               timestamp |-> clock] >>)

emergency_withdraw_usdc(p, t) ==
    LET balance_amount == p.usdc_buffer IN
    IF ~(balance_amount > 0)
    THEN PayAborted(p, t, PAY_E_INSUFFICIENT_BALANCE)
    ELSE PayCommitted(
           [p EXCEPT !.usdc_buffer = @ - balance_amount],
           [t EXCEPT !.usdc_to_sender = @ + balance_amount],
           <<>>)

update_config(p, t, new_threshold, new_slippage, new_treasury) ==
    PayCommitted(
      [p EXCEPT !.auto_swap_threshold = new_threshold,
                !.slippage_tolerance_bps = new_slippage,
                !.treasury_address = new_treasury],
      t, <<>>)

\* the while loop of batch_process_payments: it pops the last coin and counts i up
\* until i reaches the length of what is left of the vector.  deployment_ids is at
\* least as long as payments in every call of the model.
RECURSIVE batch_loop(_, _, _, _, _, _, _, _)
batch_loop(p, payments, deployment_ids, i, total_amount, events, user, clock) ==
    IF ~(i < Len(payments))
    THEN [processor |-> p, payments |-> payments, total_amount |-> total_amount,
          events |-> events]
    ELSE LET amount == payments[Len(payments)] IN
         batch_loop([p EXCEPT !.usdc_buffer = @ + amount],
                    SubSeq(payments, 1, Len(payments) - 1),
                    deployment_ids, i + 1, total_amount + amount,
                    Append(events,
                           [type |-> "PaymentProcessed", user |-> user,
                            usdc_amount |-> amount,
                            deployment_id |-> deployment_ids[i + 1],
                            timestamp |-> clock]),
                    user, clock)

batch_process_payments(p, t, user, payments, deployment_ids, clock) ==
    LET done == batch_loop(p, payments, deployment_ids, 0, 0, <<>>, user, clock) IN
    IF done.payments # <<>>
    THEN PayAborted(p, t, DESTROY_NON_EMPTY_VEC)
    ELSE PayCommitted(
           [done.processor EXCEPT !.total_usdc_processed = @ + done.total_amount],
           t, done.events)

(***************************************************************************)
(* payment_processor_cetus: the processor, the router, their functions     *)
(***************************************************************************)
CETUS_E_INSUFFICIENT_BALANCE == 2001
E_SLIPPAGE_EXCEEDED == 2002
E_INVALID_POOL == 2003
CETUS_E_UNAUTHORIZED == 2004
E_POOL_NOT_FOUND == 2007
DEFAULT_SLIPPAGE_BPS == 300
MAX_SLIPPAGE_BPS == 1000
FEE_TIER_2500 == 2500
FEE_TIER_10000 == 10000
PROTOCOL_FEE_BPS == 30

\* init_processor
cetus_init ==
    [ treasury_address       |-> "0x1234",
      usdc_buffer            |-> 0,
      wal_buffer             |-> 0,
      auto_swap_threshold    |-> AUTO_SWAP_THRESHOLD,
      total_usdc_processed   |-> 0,
      total_wal_distributed  |-> 0,
      slippage_tolerance_bps |-> DEFAULT_SLIPPAGE_BPS,
      swap_history           |-> <<>>,
      pool_configs           |-> <<>>,
      admin                  |-> "u1",
      protocol_fee_bps       |-> PROTOCOL_FEE_BPS,
      total_fees_collected   |-> 0 ]

\* init
router_init == [total_swaps |-> 0, total_volume |-> 0, failed_swaps |-> 0]

\* coins that left the processor by transfer::public_transfer
cetus_transfers_init == [usdc_to_treasury |-> 0, usdc_to_admin |-> 0]

CetusCommitted(c, r, t, events) ==
    [cetus |-> c, router |-> r, transfers |-> t, err |-> 0, events |-> events]
CetusAborted(c, r, t, code) ==
    [cetus |-> c, router |-> r, transfers |-> t, err |-> code, events |-> <<>>]

calculate_output_amount(amount_in, fee_tier) ==
    LET fee_adjusted == amount_in - ((amount_in * fee_tier) \div 1000000)
    IN  fee_adjusted * 100

calculate_price_impact(amount_in, amount_out) ==
    IF amount_in = 0 THEN 0
    ELSE LET expected_rate == 100
             actual_rate == (amount_out * 100) \div amount_in
         IN  IF actual_rate >= expected_rate THEN 0
             ELSE ((expected_rate - actual_rate) * 10000) \div expected_rate

simulate_cetus_swap(amount_in, fee_tier, slippage_bps) ==
    LET fee == (amount_in * fee_tier) \div 1000000
        amount_after_fee == amount_in - fee
        base_output == amount_after_fee * 100
        slippage_amount == (base_output * slippage_bps) \div 20000
    IN  base_output - slippage_amount

\* the SwapQuote, or the abort code
get_swap_quote(c, amount_in, pool_name) ==
    IF ~contains(c.pool_configs, pool_name)
    THEN [err |-> E_POOL_NOT_FOUND]
    ELSE
    LET config == c.pool_configs[pool_name] IN
    IF ~config.is_active
    THEN [err |-> E_INVALID_POOL]
    ELSE
    LET fee_amount == (amount_in * config.fee_tier) \div 1000000
        amount_after_fee == amount_in - fee_amount
        expected_output == calculate_output_amount(amount_after_fee, config.fee_tier)
        minimum_output == (expected_output * (10000 - c.slippage_tolerance_bps)) \div 10000
    IN  [ err                 |-> 0,
          amount_in           |-> amount_in,
          expected_amount_out |-> expected_output,
          minimum_amount_out  |-> minimum_output,
          price_impact_bps    |-> calculate_price_impact(amount_in, expected_output),
          fee_amount          |-> fee_amount,
          pool_address        |-> config.pool_address ]

swap_through_cetus(c, r, t, user, amount_in, pool_name, min_amount_out, clock) ==
    IF ~contains(c.pool_configs, pool_name)
    THEN CetusAborted(c, r, t, E_POOL_NOT_FOUND)
    ELSE
    LET config == c.pool_configs[pool_name] IN
    IF ~config.is_active
    THEN CetusAborted(c, r, t, E_INVALID_POOL)
    ELSE
    LET amount_out == simulate_cetus_swap(amount_in, config.fee_tier,
                                          c.slippage_tolerance_bps)
        swap_id == Len(c.swap_history) + 1
        record == [ swap_id |-> swap_id, user |-> user, amount_in |-> amount_in,
                    amount_out |-> amount_out, pool_used |-> config.pool_address,
                    timestamp |-> clock, slippage_bps |-> c.slippage_tolerance_bps,
                    fee_paid |-> (amount_in * config.fee_tier) \div 1000000,
                    success |-> TRUE ]
    IN
    IF ~(amount_out >= min_amount_out)
    THEN CetusAborted(c, r, t, E_SLIPPAGE_EXCEEDED)
    ELSE CetusCommitted(
           [c EXCEPT !.usdc_buffer = @ + amount_in,
                     !.swap_history = Append(@, record),
                     !.total_usdc_processed = @ + amount_in],
           [r EXCEPT !.total_swaps = @ + 1, !.total_volume = @ + amount_in],
           t,
           << [type |-> "SwapExecuted", swap_id |-> swap_id, amount_in |-> amount_in,
               amount_out |-> amount_out, pool_address |-> config.pool_address,
               timestamp |-> clock, success |-> TRUE] >>)

execute_auto_swap(c, r, t, pool_key, clock) ==
    LET swap_amount == c.usdc_buffer IN
    IF ~(swap_amount > 0)
    THEN CetusAborted(c, r, t, CETUS_E_INSUFFICIENT_BALANCE)
    ELSE IF ~contains(c.pool_configs, pool_key)
    THEN CetusAborted(c, r, t, E_FIELD_DOES_NOT_EXIST)
    ELSE
    LET config == c.pool_configs[pool_key]
        expected_wal == simulate_cetus_swap(swap_amount, config.fee_tier,
                                            c.slippage_tolerance_bps)
    IN  CetusCommitted(
          [c EXCEPT !.usdc_buffer = @ - swap_amount,
                    !.total_usdc_processed = @ + swap_amount],
          [r EXCEPT !.total_swaps = @ + 1, !.total_volume = @ + swap_amount],
          [t EXCEPT !.usdc_to_treasury = @ + swap_amount],
          << [type |-> "SwapExecuted", swap_id |-> 0, amount_in |-> swap_amount,
              amount_out |-> expected_wal, pool_address |-> config.pool_address,
              timestamp |-> clock, success |-> TRUE] >>)

batch_swap(c, r, t, payments, pool_name, clock) ==
    LET RECURSIVE loop(_, _)
        loop(left, total) ==
            IF Len(left) > 0
            THEN loop(SubSeq(left, 1, Len(left) - 1), total + left[Len(left)])
            ELSE total
        total_amount == loop(payments, 0)
        joined == [c EXCEPT !.usdc_buffer = @ + total_amount]
    IN  IF total_amount >= c.auto_swap_threshold
        THEN LET swapped == execute_auto_swap(joined, r, t, pool_name, clock)
             IN  IF swapped.err # 0 THEN CetusAborted(c, r, t, swapped.err) ELSE swapped
        ELSE CetusCommitted(joined, r, t, <<>>)

add_pool_config(c, r, t, pool_name, pool_address, fee_tier, clock) ==
    IF contains(c.pool_configs, pool_name)
    THEN CetusAborted(c, r, t, E_FIELD_ALREADY_EXISTS)
    ELSE CetusCommitted(
           [c EXCEPT !.pool_configs =
                put(@, pool_name, [ pool_address |-> pool_address, fee_tier |-> fee_tier,
                                    sqrt_price_limit |-> 0, is_active |-> TRUE ])],
           r, t,
           << [type |-> "PoolAdded", pool_address |-> pool_address,
               token_pair |-> pool_name, fee_tier |-> fee_tier, timestamp |-> clock] >>)

update_pool_config(c, r, t, pool_name, is_active) ==
    IF ~contains(c.pool_configs, pool_name)
    THEN CetusAborted(c, r, t, E_FIELD_DOES_NOT_EXIST)
    ELSE CetusCommitted([c EXCEPT !.pool_configs[pool_name].is_active = is_active],
                        r, t, <<>>)

update_slippage(c, r, t, new_slippage_bps) ==
    IF ~(new_slippage_bps <= MAX_SLIPPAGE_BPS)
    THEN CetusAborted(c, r, t, E_SLIPPAGE_EXCEEDED)
    ELSE CetusCommitted([c EXCEPT !.slippage_tolerance_bps = new_slippage_bps], r, t, <<>>)

update_threshold(c, r, t, new_threshold) ==
    CetusCommitted([c EXCEPT !.auto_swap_threshold = new_threshold], r, t, <<>>)

emergency_withdraw(c, r, t, sender) ==
    IF ~(c.admin = sender)
    THEN CetusAborted(c, r, t, CETUS_E_UNAUTHORIZED)
    ELSE LET balance_amount == c.usdc_buffer
         IN  IF balance_amount > 0
             THEN CetusCommitted([c EXCEPT !.usdc_buffer = @ - balance_amount], r,
                                 [t EXCEPT !.usdc_to_admin = @ + balance_amount], <<>>)
             ELSE CetusCommitted(c, r, t, <<>>)

(***************************************************************************)
(* Initial state                                                           *)
(***************************************************************************)
treasury_init ==
    [ deployment   |-> [u \in Users |-> 0],
      subscription |-> [u \in Users |-> 0] ]

Init ==
    /\ registry = registry_init
    /\ subs = subscription_init
    /\ trackers = <<>>
    /\ treasury = treasury_init
    /\ now = HalfMonth
    /\ result = [op |-> "init", err |-> 0, events |-> <<>>]
    /\ hook = hook_init
    /\ modal = modal_init
    /\ wallet = none
    /\ run = run_idle
    /\ other = run_idle
    /\ processor = processor_init
    /\ transfers = transfers_init
    /\ storage = none
    /\ cetus = cetus_init
    /\ router = router_init
    /\ cetus_transfers = cetus_transfers_init

(***************************************************************************)
(* Transactions on the deployment registry                                 *)
(***************************************************************************)
Effects(op, r) == [op |-> op, err |-> r.err, events |-> r.events]

\* transfer::public_transfer(payment, treasury) of a transaction that commits
Transferred(module, user, payment_amount, r) ==
    IF r.err = 0
    THEN [treasury EXCEPT ![module][user] = @ + payment_amount]
    ELSE treasury

Tick(times) ==
    \E t \in times :
        /\ t > now
        /\ now' = t
        /\ result' = [op |-> "tick", err |-> 0, events |-> <<>>]
        /\ UNCHANGED <<registry, subs, trackers, treasury, processor, transfers, cetus_objects, client>>

RequestDeployment ==
    \E user \in Users, payment_amount \in RegPayments, repo_url \in Repos,
       estimated_wal \in EstimatedWal :
        LET r == request_deployment(registry, user, payment_amount, repo_url, estimated_wal, now)
        IN  /\ Len(registry.deployments) < MaxDeployments
            /\ registry' = r.reg
            /\ treasury' = Transferred("deployment", user, payment_amount, r)
            /\ result' = Effects("request_deployment", r)
            /\ UNCHANGED <<subs, trackers, now, processor, transfers, cetus_objects, client>>

MarkProcessing ==
    \E deployment_id \in 1..MaxDeployments :
        LET r == mark_processing(registry, deployment_id)
        IN  /\ registry' = r.reg
            /\ result' = Effects("mark_processing", r)
            /\ UNCHANGED <<subs, trackers, treasury, now, processor, transfers, cetus_objects, client>>

MarkDeployed ==
    \E deployment_id \in 1..MaxDeployments, walrus_site_id \in SiteIds,
       actual_wal_used \in ActualWal :
        LET r == mark_deployed(registry, deployment_id, walrus_site_id, actual_wal_used, now)
        IN  /\ registry' = r.reg
            /\ result' = Effects("mark_deployed", r)
            /\ UNCHANGED <<subs, trackers, treasury, now, processor, transfers, cetus_objects, client>>

MarkFailed ==
    \E deployment_id \in 1..MaxDeployments, error_message \in ErrorMessages :
        LET r == mark_failed(registry, deployment_id, error_message, now)
        IN  /\ registry' = r.reg
            /\ result' = Effects("mark_failed", r)
            /\ UNCHANGED <<subs, trackers, treasury, now, processor, transfers, cetus_objects, client>>

RequestRollback ==
    \E user \in Users, payment_amount \in RegPayments,
       parent_deployment_id \in 1..MaxDeployments :
        LET r == request_rollback_deployment(registry, user, payment_amount,
                                             parent_deployment_id, now)
        IN  /\ Len(registry.deployments) < MaxDeployments
            /\ registry' = r.reg
            /\ treasury' = Transferred("deployment", user, payment_amount, r)
            /\ result' = Effects("request_rollback_deployment", r)
            /\ UNCHANGED <<subs, trackers, now, processor, transfers, cetus_objects, client>>

NextReg ==
    \/ RequestDeployment
    \/ MarkProcessing
    \/ MarkDeployed
    \/ MarkFailed
    \/ RequestRollback
    \/ Tick(RegTimes)

SpecReg == Init /\ [][NextReg]_vars

(***************************************************************************)
(* Transactions on the subscription registry                               *)
(***************************************************************************)
Tiers == 0..4
AutoRenew == {TRUE, FALSE}
BandwidthMb == {600}

\* coins a caller may attach when the amount due is `due`
Around(due) == {due - 1, due} \ {-1}

RECURSIVE SumOver(_, _)
SumOver(f, keys) ==
    IF keys = {} THEN 0
    ELSE LET k == CHOOSE x \in keys : TRUE IN f[k] + SumOver(f, keys \ {k})

PaymentsHeld ==
    SumOver([u \in DOMAIN subs.subscriptions |-> Len(subs.subscriptions[u].payment_history)],
            DOMAIN subs.subscriptions)

UsageHeld ==
    SumOver([u \in DOMAIN trackers |-> Cardinality(trackers[u].deployment_history)],
            DOMAIN trackers)

SubscribeBy(users, tiers) ==
    \E user \in users, tier \in tiers, auto_renew \in AutoRenew :
    \E payment_amount \in Around(subs.tier_prices[IF tier <= 3 THEN tier ELSE 3]) :
        LET r == subscribe(subs, user, payment_amount, tier, auto_renew, now)
        IN  /\ PaymentsHeld < MaxPayments
            /\ subs' = r.reg
            /\ trackers' = IF r.err = 0 THEN put(trackers, user, r.tracker) ELSE trackers
            /\ treasury' = Transferred("subscription", user, payment_amount, r)
            /\ result' = Effects("subscribe", r)
            /\ UNCHANGED <<registry, now, processor, transfers, cetus_objects, client>>

Subscribe == SubscribeBy(Users, Tiers)

RenewSubscription ==
    \E user \in Users :
    \E payment_amount \in
          Around(subs.tier_prices[IF contains(subs.subscriptions, user)
                                  THEN subs.subscriptions[user].tier ELSE TIER_STARTER]) :
        LET r == renew_subscription(subs, user, payment_amount, now)
        IN  /\ PaymentsHeld < MaxPayments
            /\ subs' = r.reg
            /\ treasury' = Transferred("subscription", user, payment_amount, r)
            /\ result' = Effects("renew_subscription", r)
            /\ UNCHANGED <<registry, trackers, now, processor, transfers, cetus_objects, client>>

\* the caller passes its own UsageTracker, which only subscribe creates
RecordDeploymentBy(users, max) ==
    \E user \in DOMAIN trackers \cap users, bandwidth_mb \in BandwidthMb :
    \E deployment_id \in 1..(Cardinality(trackers[user].deployment_history) + 1) :
        LET r == record_deployment(subs, trackers[user], user, deployment_id, bandwidth_mb, now)
        IN  /\ UsageHeld < max
            /\ subs' = r.reg
            /\ trackers' = [trackers EXCEPT ![user] = r.tracker]
            /\ result' = Effects("record_deployment", r)
            /\ UNCHANGED <<registry, treasury, now, processor, transfers, cetus_objects, client>>

RecordDeployment == RecordDeploymentBy(Users, MaxUsage)

UpgradeTier ==
    \E user \in Users, new_tier \in Tiers :
    \E payment_amount \in
          Around(IF contains(subs.subscriptions, user) /\ new_tier <= 3
                    /\ new_tier > subs.subscriptions[user].tier
                 THEN subs.tier_prices[new_tier]
                      - subs.tier_prices[subs.subscriptions[user].tier]
                 ELSE subs.tier_prices[TIER_STARTER]) :
        LET r == upgrade_tier(subs, user, payment_amount, new_tier)
        IN  /\ subs' = r.reg
            /\ treasury' = Transferred("subscription", user, payment_amount, r)
            /\ result' = Effects("upgrade_tier", r)
            /\ UNCHANGED <<registry, trackers, now, processor, transfers, cetus_objects, client>>

CancelSubscription ==
    \E user \in Users :
        LET r == cancel_subscription(subs, user, now)
        IN  /\ subs' = r.reg
            /\ result' = Effects("cancel_subscription", r)
            /\ UNCHANGED <<registry, trackers, treasury, now, processor, transfers, cetus_objects, client>>

NextSub ==
    \/ Subscribe
    \/ RenewSubscription
    \/ RecordDeployment
    \/ UpgradeTier
    \/ CancelSubscription
    \/ Tick(SubTimes)

SpecSub == Init /\ [][NextSub]_vars

(***************************************************************************)
(* One subscriber using up a Starter period: subscription_manager with     *)
(* enough recorded deployments to pass the Starter limit                   *)
(***************************************************************************)
Subscriber == {"u1"}

NextUsage ==
    \/ SubscribeBy(Subscriber, {TIER_STARTER})
    \/ RenewSubscription
    \/ RecordDeploymentBy(Subscriber, MaxPeriodUsage)
    \/ UpgradeTier
    \/ Tick(SubTimes)

SpecUsage == Init /\ [][NextUsage]_vars

(***************************************************************************)
(* Properties of the deployment registry (SpecReg)                         *)
(***************************************************************************)
LegalStatusChanges ==
    { <<STATUS_PENDING, STATUS_PROCESSING>>,
      <<STATUS_PROCESSING, STATUS_DEPLOYED>>,
      <<STATUS_PROCESSING, STATUS_FAILED>> }

\* C1: every change of a record's status is Pending->Processing, Processing->Deployed
\* or Processing->Failed; a mark_failed on a record that is not Processing changes
\* nothing.  The registry violates it: mark_failed asserts nothing about the status.
C1_OnlyLegalStatusChanges ==
    [][\A id \in DOMAIN registry.deployments :
          registry'.deployments[id].status # registry.deployments[id].status
             => <<registry.deployments[id].status, registry'.deployments[id].status>>
                   \in LegalStatusChanges]_vars

\* C2: once a record is Deployed or Failed, no later transaction changes any of its
\* fields.  The registry violates it: mark_failed rewrites a Deployed record.
C2_TerminalRecordsFrozen ==
    [][\A id \in DOMAIN registry.deployments :
          registry.deployments[id].status \in {STATUS_DEPLOYED, STATUS_FAILED}
             => registry'.deployments[id] = registry.deployments[id]]_vars

\* the records of one user for one repository, in creation order
RecordsOf(user, repo_url) ==
    SelectSeq(registry.deployments, LAMBDA d : d.user = user /\ d.repo_url = repo_url)

\* C3: for every (user, repo_url) the versions of the records, regular or rollback, in
\* creation order are 1, 2, 3, ...  The registry violates it: a rollback record copies
\* its parent's version.
C3_VersionsCountUp ==
    \A user \in Users, repo_url \in Repos :
        \A n \in 1..Len(RecordsOf(user, repo_url)) :
            RecordsOf(user, repo_url)[n].version = n

\* C6: a rollback request by the parent's owner with a payment below the minimum
\* aborts with E_INSUFFICIENT_PAYMENT and leaves the registry as it was, as
\* request_deployment does.  The registry violates it: request_rollback_deployment
\* never reads min_payment_usdc.
C6_RollbackPaymentFloor ==
    \A user \in Users, payment_amount \in RegPayments, parent \in DOMAIN registry.deployments :
        (payment_amount < registry.min_payment_usdc /\ registry.deployments[parent].user = user)
           => /\ \A repo_url \in Repos, estimated_wal \in EstimatedWal :
                    LET d == request_deployment(registry, user, payment_amount, repo_url,
                                                estimated_wal, now)
                    IN  d.err = E_INSUFFICIENT_PAYMENT /\ d.reg = registry
              /\ LET r == request_rollback_deployment(registry, user, payment_amount, parent, now)
                 IN  r.err = E_INSUFFICIENT_PAYMENT /\ r.reg = registry

\* C8: in every reachable registry, a rollback request by a user who is not the
\* parent record's user aborts with E_UNAUTHORIZED and leaves the registry unchanged:
\* no record, no entry in the caller's list, the counters as they were.
C8_RollbackByOtherUserUnauthorized ==
    \A user \in Users, payment_amount \in RegPayments, parent \in DOMAIN registry.deployments :
        registry.deployments[parent].user # user
           => LET r == request_rollback_deployment(registry, user, payment_amount, parent, now)
              IN  /\ r.err = E_UNAUTHORIZED
                  /\ r.events = <<>>
                  /\ Len(r.reg.deployments) = Len(registry.deployments)
                  /\ get_user_deployments(r.reg, user) = get_user_deployments(registry, user)
                  /\ get_total_deployments(r.reg) = get_total_deployments(registry)
                  /\ get_total_revenue(r.reg) = get_total_revenue(registry)
                  /\ r.reg = registry

\* a rollback request on another user's record was refused as unauthorized
C8_Witness ==
    /\ result.op = "request_rollback_deployment"
    /\ result.err = E_UNAUTHORIZED
    /\ Len(registry.deployments) >= 1

(***************************************************************************)
(* Properties of the subscription registry (SpecSub)                       *)
(***************************************************************************)
RECURSIVE SumAmounts(_)
SumAmounts(payment_history) ==
    IF payment_history = <<>> THEN 0
    ELSE Head(payment_history).amount + SumAmounts(Tail(payment_history))

\* C7: a subscription's total_spent is the sum of all the payments its user made
\* through subscribe, renew_subscription and upgrade_tier, and each of them has a
\* PaymentRecord.  The registry violates it: upgrade_tier takes the coin and records
\* nothing.
C7_TotalSpentIsAllPayments ==
    \A user \in DOMAIN subs.subscriptions :
        /\ subs.subscriptions[user].total_spent = treasury.subscription[user]
        /\ SumAmounts(subs.subscriptions[user].payment_history) = treasury.subscription[user]

MAX_RETRIES == 30

\* the address of the wallet the browser may connect
Account == "u1"

\* balances of the USDC coin objects the wallet may hold when a call starts
CoinSets == { <<MIN_PAYMENT_USDC + 1>>, <<3000000, 3000000>>, <<1000000>> }

RECURSIVE totalBalance(_)
totalBalance(coins) ==
    IF coins = <<>> THEN 0 ELSE Head(coins) + totalBalance(Tail(coins))

\* a cost of the estimated WAL alone, without the base cost
calculateWalCost(estimatedWal) == (estimatedWal * 10000) \div 1000000

\* DeploymentRegistryService.calculateDeploymentCost, in bigint arithmetic
calculateDeploymentCost(estimatedWal) ==
    LET baseCost == MIN_PAYMENT_USDC
        walCost == (estimatedWal * 10000) \div 1000000
    IN  baseCost + walCost

\* PaymentProcessorService.formatUSDC: Number(amount) / 1_000_000 with two decimals
formatUSDC(amount) ==
    LET cents == (amount + 5000) \div 10000
    IN  "$" \o ToString(cents \div 100) \o "."
            \o (IF cents % 100 < 10 THEN "0" ELSE "") \o ToString(cents % 100)

\* USDCService.getBalance: null when the RPC call throws
BalanceReads(coins) == {none, some(totalBalance(coins))}

\* USDCService.getCoins: [] when the RPC call throws
CoinReads(coins) == {<<>>, coins}

\* JavaScript Boolean(v) of an array v: an object is truthy whatever it holds
BooleanOfArray(v) == TRUE

\* what devInspectTransactionBlock of can_deploy may come back with: a throw, no
\* results, or returnValues = [[bytes, 'bool']] with the BCS bytes of the bool
Inspections(user) ==
    { [kind |-> "throws"],
      [kind |-> "empty"],
      [kind |-> "results",
       returnValues |-> << << <<IF can_deploy(subs, user, now) THEN 1 ELSE 0>>, "bool" >> >>] }

\* SubscriptionManagerService.canDeploy
canDeploy(inspection) ==
    IF inspection.kind = "throws"
    THEN TRUE
    ELSE IF inspection.kind = "results" /\ Len(inspection.returnValues) > 0
    THEN BooleanOfArray(inspection.returnValues[1][1])
    ELSE TRUE

Failure(error) == [success |-> FALSE, error |-> some(error), deploymentId |-> ""]
Success(deploymentId) == [success |-> TRUE, error |-> none, deploymentId |-> deploymentId]

\* ContractService.trackTransaction: the effects status, or 'pending' when the
\* transaction is not found yet
Tracked(tx) == {IF tx = "success" THEN "success" ELSE "failed", "pending"}

(***************************************************************************)
(* useDeployment: the state updates of deployWithUSDC and deployWithContract *)
(***************************************************************************)
\* a failure that puts the hook back to 'idle'
HookFailedToIdle(error) ==
    [isDeploying |-> FALSE, deploymentStatus |-> "idle", error |-> some(error)]

\* the call returns a result with success: false
HookFailed(error) == [isDeploying |-> FALSE, deploymentStatus |-> "failed", error |-> some(error)]

\* the state written after waitForTransaction returned `confirmed`
HookConfirmed(confirmed) ==
    [ isDeploying      |-> FALSE,
      deploymentStatus |-> IF confirmed THEN "success" ELSE "failed",
      error            |-> IF confirmed THEN none ELSE some("Transaction failed to confirm") ]

\* resetState
resetState == [isDeploying |-> FALSE, deploymentStatus |-> "idle", error |-> none]

Idle == run.pc \in {"idle", "done"}

ConnectWallet ==
    /\ wallet = none
    /\ wallet' = some(Account)
    /\ UNCHANGED <<storage, chain, hook, modal, run, other>>

DisconnectWallet ==
    /\ wallet # none
    /\ wallet' = none
    /\ UNCHANGED <<storage, chain, hook, modal, run, other>>

(***************************************************************************)
(* QuickDeployModalV2                                                      *)
(***************************************************************************)
BackendMessages == {none, some("build queue full")}

\* the dialog opens: the effect on `open` starts fetchRepos
OpenDialog ==
    /\ ~modal.open
    /\ modal' = [modal EXCEPT !.open = TRUE, !.step = "loading"]
    /\ UNCHANGED <<storage, chain, hook, wallet, run, other>>

\* fetchRepos resolves: 401 or an error shows connect, a list shows select
ReposFetched ==
    /\ modal.open /\ modal.step = "loading"
    /\ \E step \in {"connect", "select"} : modal' = [modal EXCEPT !.step = step]
    /\ UNCHANGED <<storage, chain, hook, wallet, run, other>>

SelectRepo ==
    /\ modal.open /\ modal.step = "select"
    /\ \E repo \in Repos : modal' = [modal EXCEPT !.selectedRepo = some(repo)]
    /\ UNCHANGED <<storage, chain, hook, wallet, run, other>>

handleProceedToPayment ==
    /\ modal.open /\ modal.step = "select"
    /\ modal.selectedRepo # none
    /\ modal' = [modal EXCEPT !.step = "payment"]
    /\ UNCHANGED <<storage, chain, hook, wallet, run, other>>

SetPaymentMethod ==
    /\ modal.open /\ modal.step = "payment"
    /\ \E method \in {"blockchain", "traditional"} :
          /\ method # modal.paymentMethod
          /\ modal' = [modal EXCEPT !.paymentMethod = method]
    /\ UNCHANGED <<storage, chain, hook, wallet, run, other>>

\* the Back button of the payment step
BackToSelect ==
    /\ modal.open /\ modal.step = "payment"
    /\ modal' = [modal EXCEPT !.step = "select"]
    /\ UNCHANGED <<storage, chain, hook, wallet, run, other>>

\* handleDeploy up to its first await.  The button is disabled for a blockchain
\* payment without a wallet; the balance it also compares is the one shown, read by
\* an earlier effect.  On the blockchain path deployWithUSDC sets 'checking' and
\* 'signing' before it awaits anything.
handleDeploy ==
    /\ modal.open /\ modal.step = "payment"
    /\ modal.selectedRepo # none
    /\ modal.paymentMethod = "blockchain" => wallet # none
    /\ Idle
    /\ modal' = [modal EXCEPT !.step = "deploy", !.errorMessage = none]
    /\ IF modal.paymentMethod = "blockchain" /\ wallet # none
       THEN /\ hook' = [isDeploying |-> TRUE, deploymentStatus |-> "signing", error |-> none]
            /\ \E coins \in CoinSets :
                  run' = [run_idle EXCEPT !.pc = "getBalance", !.call = "deployWithUSDC",
                                          !.account = wallet, !.coins = coins,
                                          !.request = modal.selectedRepo]
       ELSE /\ hook' = hook
            /\ run' = [run_idle EXCEPT !.pc = "backend", !.call = "traditional",
                                       !.request = modal.selectedRepo]
    /\ UNCHANGED <<storage, chain, wallet, other>>

\* deployWithUSDC got a result with success: false from simpleDeployWithUSDC and
\* returns it; handleDeploy shows the error step
UsdcFailed(error) ==
    /\ hook' = HookFailed(error)
    /\ modal' = [modal EXCEPT !.step = "error", !.errorMessage = some(error)]
    /\ run' = [run EXCEPT !.pc = "done", !.result = some(Failure(error))]

\* simpleDeployWithUSDC: this.usdc.getBalance resolves
UsdcGetBalance ==
    /\ run.pc = "getBalance" /\ run.call = "deployWithUSDC"
    /\ \E usdcBalance \in BalanceReads(run.coins) :
          IF usdcBalance = none \/ usdcBalance[1] < MIN_PAYMENT_USDC
          THEN UsdcFailed("Insufficient USDC balance. Required: "
                          \o formatUSDC(MIN_PAYMENT_USDC))
          ELSE /\ run' = [run EXCEPT !.pc = "getCoins"]
               /\ UNCHANGED <<hook, modal>>
    /\ UNCHANGED <<storage, chain, wallet, other>>

\* simpleDeployWithUSDC: this.usdc.getCoins resolves; the transfer is built
UsdcGetCoins ==
    /\ run.pc = "getCoins" /\ run.call = "deployWithUSDC"
    /\ \E usdcCoins \in CoinReads(run.coins) :
          IF Len(usdcCoins) = 0
          THEN UsdcFailed("No USDC coins found in wallet")
          ELSE /\ run' = [run EXCEPT !.pc = "sign"]
               /\ UNCHANGED <<hook, modal>>
    /\ UNCHANGED <<storage, chain, wallet, other>>

\* signAndExecute of the USDC transfer: the wallet rejects (a throw), or signs and
\* the transaction executes; splitting more than usdcCoins[0] holds fails on chain.
\* A result with a digest is success: true; deployWithUSDC sets 'confirming'.
UsdcSign ==
    /\ run.pc = "sign" /\ run.call = "deployWithUSDC"
    /\ \/ UsdcFailed("User rejected the request")
       \/ /\ \E tx \in {"success", "failure"} :
                /\ tx = "success" => run.coins[1] >= MIN_PAYMENT_USDC
                /\ run' = [run EXCEPT !.pc = "confirming", !.tx = tx,
                                      !.result = some(Success("digest"))]
          /\ hook' = [hook EXCEPT !.deploymentStatus = "confirming"]
          /\ modal' = modal
    /\ UNCHANGED <<storage, chain, wallet, other>>

\* waitForTransaction returned: the hook writes success or failed and returns the
\* result it got before; handleDeploy, on result.success, posts to the build backend
ConfirmedOf(r, rn, confirmed) ==
    /\ hook' = HookConfirmed(confirmed)
    /\ rn = [r EXCEPT !.confirmed = some(confirmed),
                      !.pc = IF r.call = "deployWithUSDC" /\ r.result[1].success
                             THEN "backend" ELSE "done",
                      !.backend = IF r.call = "deployWithUSDC" /\ r.result[1].success
                                  THEN "called" ELSE "none"]

Confirmed(confirmed) == ConfirmedOf(run, run', confirmed)

\* waitForTransaction that goes on asking until the transaction is settled
waitUntilSettled(i, status) ==
    IF status = "success" THEN [returned |-> some(TRUE), i |-> i]
    ELSE IF status = "failed" THEN [returned |-> some(FALSE), i |-> i]
    ELSE [returned |-> none, i |-> i + 1]

\* one round of waitForTransaction's loop with loop variable i and the status
\* trackTransaction came back with: the value returned, if any, and the i of the
\* next round
waitForTransaction(i, status) ==
    IF status = "success" THEN [returned |-> some(TRUE), i |-> i]
    ELSE IF status = "failed" THEN [returned |-> some(FALSE), i |-> i]
    ELSE IF i + 1 < MAX_RETRIES
    THEN [returned |-> none, i |-> i + 1]
    ELSE [returned |-> some(FALSE), i |-> i]

\* one round of waitForTransaction's loop: trackTransaction, then the 2 s sleep
PollOf(r, rn) ==
    /\ r.pc = "confirming"
    /\ r.i < MAX_RETRIES
    /\ \E status \in Tracked(r.tx) :
          LET round == waitForTransaction(r.i, status) IN
          IF round.returned = none
          THEN rn = [r EXCEPT !.i = round.i] /\ hook' = hook
          ELSE ConfirmedOf(r, rn, round.returned[1])
    /\ UNCHANGED <<storage, chain, modal, wallet>>

Poll == PollOf(run, run') /\ UNCHANGED other

\* the POST to /build resolves (or throws) and handleDeploy handles the response
Backend ==
    /\ run.pc = "backend"
    /\ \/ /\ run' = [run EXCEPT !.pc = "timer", !.backend = "success"]
          /\ modal' = modal
       \/ \E message \in BackendMessages :
             /\ run' = [run EXCEPT !.pc = "done", !.backend = "failure"]
             /\ modal' = [modal EXCEPT
                            !.step = "error",
                            !.errorMessage = IF message # none THEN message
                                             ELSE some("Deployment failed")]
       \/ /\ run' = [run EXCEPT !.pc = "done", !.backend = "threw"]
          /\ modal' = [modal EXCEPT !.step = "error", !.errorMessage = some("Failed to fetch")]
    /\ UNCHANGED <<storage, chain, hook, wallet, other>>

\* setTimeout(() => setStep('success'), 500)
ShowSuccess ==
    /\ run.pc = "timer"
    /\ run' = [run EXCEPT !.pc = "done"]
    /\ modal' = [modal EXCEPT !.step = "success"]
    /\ UNCHANGED <<storage, chain, hook, wallet, other>>

\* the Try Again button of the error step
TryAgain ==
    /\ modal.open /\ modal.step = "error"
    /\ modal' = [modal EXCEPT !.step = "select"]
    /\ hook' = resetState
    /\ UNCHANGED <<storage, chain, wallet, run, other>>

\* handleOpenChange(false)
CloseDialog ==
    /\ modal.open
    /\ modal' = [modal EXCEPT !.open = FALSE, !.step = "loading", !.selectedRepo = none,
                              !.errorMessage = none]
    /\ hook' = resetState
    /\ UNCHANGED <<storage, chain, wallet, run, other>>

NextModal ==
    \/ ConnectWallet
    \/ DisconnectWallet
    \/ OpenDialog
    \/ ReposFetched
    \/ SelectRepo
    \/ handleProceedToPayment
    \/ SetPaymentMethod
    \/ BackToSelect
    \/ handleDeploy
    \/ UsdcGetBalance
    \/ UsdcGetCoins
    \/ UsdcSign
    \/ Poll
    \/ Backend
    \/ ShowSuccess
    \/ TryAgain
    \/ CloseDialog

SpecModal == Init /\ [][NextModal]_vars

\* C5: the build backend is called only in a blockchain run whose payment was
\* confirmed (workflow state success), never in one that ended failed; and a backend
\* response reporting failure puts the dialog on its error step with a message.
\* The client violates it: deployWithUSDC returns the success: true result it got
\* from simpleDeployWithUSDC whatever waitForTransaction returned.
C5_BackendOnlyAfterSuccess ==
    [][/\ (run'.call = "deployWithUSDC" /\ run'.backend # "none")
             => run'.confirmed = some(TRUE)
       /\ (run.pc = "backend" /\ run'.backend = "failure")
             => (modal'.step = "error" /\ modal'.errorMessage # none)]_vars

(***************************************************************************)
(* deployWithContract and ContractService.deployWithPayment                *)
(***************************************************************************)
\* a failure after which the call asks the wallet to sign again
ContractSignsAgainOf(this, next, error) ==
    /\ hook' = [hook EXCEPT !.deploymentStatus = "signing", !.error = some(error)]
    /\ next = [this EXCEPT !.pc = "sign"]

\* deployWithContract returns a result with success: false
ContractFailedOf(this, next, error) ==
    /\ hook' = HookFailed(error)
    /\ next = [this EXCEPT !.pc = "done", !.result = some(Failure(error))]

ContractFailed(error) == ContractFailedOf(run, run', error)

\* deployWithContract that turns a call down while another is deploying
accepted_when_idle(state, account) == account # none /\ ~state.isDeploying

\* deployWithContract's only test before it starts: an account is connected
accepted(state, account) == account # none

\* deployWithContract up to its first await
deployWithContractOf(this, next, repos, coinSets) ==
    /\ this.pc \in {"idle", "done"}
    /\ \E repoUrl \in repos, estimatedWal \in EstimatedWal :
          IF ~accepted(hook, wallet)
          THEN /\ hook' = [hook EXCEPT !.error = some("Please connect your wallet first")]
               /\ next = [run_idle EXCEPT !.pc = "done", !.call = "deployWithContract",
                                          !.result = some(Failure("Wallet not connected"))]
          ELSE /\ hook' = [isDeploying |-> TRUE, deploymentStatus |-> "checking",
                           error |-> none]
               /\ \E coins \in coinSets :
                     next = [run_idle EXCEPT
                               !.pc = "hookBalance", !.call = "deployWithContract",
                               !.account = wallet, !.coins = coins,
                               !.request = some([repoUrl |-> repoUrl,
                                                 estimatedWal |-> estimatedWal])]
    /\ UNCHANGED <<storage, chain, modal, wallet>>

deployWithContract(repos) ==
    deployWithContractOf(run, run', repos, CoinSets) /\ UNCHANGED other

\* deployWithContract's test of the balance it read: null, or less than required
insufficient_when_read(usdcBalance, requiredAmount) ==
    usdcBalance # none /\ usdcBalance[1] < requiredAmount

insufficient(usdcBalance, requiredAmount) ==
    usdcBalance = none \/ usdcBalance[1] < requiredAmount

InsufficientMessage(requiredAmount) ==
    "Insufficient USDC. Required: " \o formatUSDC(requiredAmount)

\* deployWithContract: contractService.usdc.getBalance resolves
ContractHookBalanceOf(this, next) ==
    /\ this.pc = "hookBalance"
    /\ LET requiredAmount == calculateDeploymentCost(this.request[1].estimatedWal)
       IN  \E usdcBalance \in BalanceReads(this.coins) :
              IF insufficient(usdcBalance, requiredAmount)
              THEN ContractFailedOf(this, next, InsufficientMessage(requiredAmount))
              ELSE /\ hook' = [hook EXCEPT !.deploymentStatus = "signing"]
                   /\ next = [this EXCEPT !.pc = "canDeploy"]
    /\ UNCHANGED <<storage, chain, modal, wallet>>

ContractHookBalance == ContractHookBalanceOf(run, run') /\ UNCHANGED other

\* deployWithPayment step 1: this.subscription.canDeploy resolves
ContractCanDeployOf(this, next) ==
    /\ this.pc = "canDeploy"
    /\ \E inspection \in Inspections(this.account[1]) :
          IF ~canDeploy(inspection)
          THEN ContractFailedOf(this, next, "Deployment limit exceeded. Please upgrade your subscription.")
          ELSE /\ next = [this EXCEPT !.pc = "serviceBalance", !.inspected = some(inspection)]
               /\ hook' = hook
    /\ UNCHANGED <<storage, chain, modal, wallet>>

ContractCanDeploy == ContractCanDeployOf(run, run') /\ UNCHANGED other

\* deployWithPayment steps 2 and 3: the cost, and this.usdc.getBalance resolves
ContractServiceBalanceOf(this, next) ==
    /\ this.pc = "serviceBalance"
    /\ LET deploymentCost == calculateDeploymentCost(this.request[1].estimatedWal)
       IN  \E usdcBalance \in BalanceReads(this.coins) :
              IF usdcBalance = none \/ usdcBalance[1] < deploymentCost
              THEN ContractFailedOf(this, next, "Insufficient USDC balance. Required: "
                                  \o formatUSDC(deploymentCost))
              ELSE /\ next = [this EXCEPT !.pc = "getCoins"]
                   /\ hook' = hook
    /\ UNCHANGED <<storage, chain, modal, wallet>>

ContractServiceBalance == ContractServiceBalanceOf(run, run') /\ UNCHANGED other

\* deployWithPayment steps 4 and 5: this.usdc.getCoins resolves; the transaction is built
ContractGetCoinsOf(this, next) ==
    /\ this.pc = "getCoins" /\ this.call = "deployWithContract"
    /\ \E usdcCoins \in CoinReads(this.coins) :
          IF Len(usdcCoins) = 0
          THEN ContractFailedOf(this, next, "No USDC coins found in wallet")
          ELSE /\ next = [this EXCEPT !.pc = "sign"]
               /\ hook' = hook
    /\ UNCHANGED <<storage, chain, modal, wallet>>

ContractGetCoins == ContractGetCoinsOf(run, run') /\ UNCHANGED other

\* deployWithPayment step 6, signAndExecute: the wallet rejects (a throw), or signs
\* and the transaction executes: it splits the cost off usdcCoins[0] and calls
\* request_deployment as the wallet's address.  onSuccess sets 'processing'.
ContractSignOf(this, next) ==
    /\ this.pc = "sign" /\ this.call = "deployWithContract"
    /\ \/ /\ ContractFailedOf(this, next, "User rejected the request")
          /\ UNCHANGED <<storage, chain>>
       \/ LET deploymentCost == calculateDeploymentCost(this.request[1].estimatedWal)
              user == this.account[1]
              r == request_deployment(registry, user, deploymentCost,
                                      this.request[1].repoUrl,
                                      this.request[1].estimatedWal, now)
          IN  /\ hook' = [hook EXCEPT !.deploymentStatus = "processing"]
              /\ IF this.coins[1] < deploymentCost
                 THEN /\ next = [this EXCEPT !.pc = "getEvents", !.tx = "failure"]
                      /\ UNCHANGED <<storage, chain>>
                 ELSE /\ Len(registry.deployments) < MaxDeployments
                      /\ next = [this EXCEPT !.pc = "getEvents",
                                   !.tx = IF r.err = 0 THEN "success" ELSE "failure"]
                      /\ registry' = r.reg
                      /\ treasury' = Transferred("deployment", user, deploymentCost, r)
                      /\ result' = Effects("request_deployment", r)
                      /\ UNCHANGED <<subs, trackers, now, processor, transfers, cetus_objects>>
    /\ UNCHANGED <<modal, wallet, storage>>

ContractSign == ContractSignOf(run, run') /\ UNCHANGED other

\* deployWithPayment step 7: getTransactionBlock resolves with the events, or throws;
\* with a result deployWithContract sets 'confirming'
ContractGetEventsOf(this, next) ==
    /\ this.pc = "getEvents"
    /\ \/ ContractFailedOf(this, next, "Could not find the referenced transaction")
       \/ LET created == IF this.tx = "success" /\ result.op = "request_deployment"
                         THEN SelectSeq(result.events,
                                        LAMBDA e : e.type = "DeploymentCreated")
                         ELSE <<>>
              deploymentId == IF created = <<>> THEN "" ELSE created[1].deployment_id
          IN  /\ next = [this EXCEPT !.pc = "confirming",
                                    !.result = some(Success(deploymentId))]
              /\ hook' = [hook EXCEPT !.deploymentStatus = "confirming"]
    /\ UNCHANGED <<storage, chain, modal, wallet>>

ContractGetEvents == ContractGetEventsOf(run, run') /\ UNCHANGED other

\* the requests, and the clock readings, of the runs of the deployment flow
FlowRepos == {"repoA"}
FlowTimes == {HalfMonth, 4 * HalfMonth}

NextFlow ==
    \/ ConnectWallet
    \/ deployWithContract(FlowRepos)
    \/ ContractHookBalance
    \/ ContractCanDeploy
    \/ ContractServiceBalance
    \/ ContractGetCoins
    \/ ContractSign
    \/ ContractGetEvents
    \/ Poll
    \/ SubscribeBy({Account}, {TIER_STARTER})
    \/ Tick(FlowTimes)

SpecFlow == Init /\ [][NextFlow]_vars

\* every round of waitForTransaction ends: trackTransaction catches what the RPC call
\* throws and the 2 s timer fires
SpecFlowFair == SpecFlow /\ WF_vars(Poll)

\* C4: while can_deploy is false for a user, no step creates a deployment record for
\* that user, and the client submits a deployment transaction only after a can_deploy
\* check whose on-chain answer was true.  The system violates it: request_deployment
\* never reads the subscription, and canDeploy answers true whatever the chain said.
C4_LimitsEnforced ==
    [][/\ \A user \in Users :
             ~can_deploy(subs, user, now)
                => get_user_deployments(registry', user) = get_user_deployments(registry, user)
       /\ (run.pc = "sign" /\ run'.pc = "getEvents")
             => /\ run.inspected # none
                /\ run.inspected[1].kind = "results"
                /\ run.inspected[1].returnValues[1][1] = <<1>>]_vars

(***************************************************************************)
(* Further properties of the subscription registry (SpecSub)               *)
(***************************************************************************)
Max(a, b) == IF a >= b THEN a ELSE b

\* C11: a committed renew_subscription sets end_date to max(now, old end_date) + 30
\* days, resets deployments_used and bandwidth_used to 0 and keeps tier and
\* auto_renew; without a subscription it aborts with E_SUBSCRIPTION_NOT_FOUND, with a
\* payment below the tier's price with E_INSUFFICIENT_PAYMENT, changing nothing.
C11_RenewExtendsPeriod ==
    \A user \in Users :
    \A payment_amount \in {0} \cup UNION {Around(subs.tier_prices[t]) : t \in TIER_STARTER..TIER_ENTERPRISE} :
        LET r == renew_subscription(subs, user, payment_amount, now) IN
        IF ~contains(subs.subscriptions, user)
        THEN r.err = SUB_E_SUBSCRIPTION_NOT_FOUND /\ r.reg = subs
        ELSE LET old == subs.subscriptions[user]
                 new == r.reg.subscriptions[user]
             IN  IF payment_amount < subs.tier_prices[old.tier]
                 THEN r.err = SUB_E_INSUFFICIENT_PAYMENT /\ r.reg = subs
                 ELSE /\ r.err = 0
                      /\ new.end_date = Max(now, old.end_date) + SECONDS_IN_MONTH
                      /\ new.deployments_used = 0
                      /\ new.bandwidth_used = 0
                      /\ new.tier = old.tier
                      /\ new.auto_renew = old.auto_renew
                      /\ DOMAIN r.reg.subscriptions = DOMAIN subs.subscriptions

\* a renewal of an expired subscription committed: the period restarts at the
\* clock's reading
C11_Witness ==
    /\ result.op = "renew_subscription"
    /\ result.err = 0
    /\ \E user \in DOMAIN subs.subscriptions :
          LET s == subs.subscriptions[user] IN
          /\ Len(s.payment_history) = 2
          /\ s.payment_history[2].timestamp = now
          /\ s.end_date = now + SECONDS_IN_MONTH
          /\ s.start_date + SECONDS_IN_MONTH < now
          /\ s.deployments_used = 0

\* C12: upgrade_tier commits exactly when the user has a subscription, new_tier is
\* above the current tier and the payment covers the difference of the two tier
\* prices; one unit less aborts with E_INSUFFICIENT_PAYMENT, new_tier at or below the
\* current tier aborts with E_INVALID_TIER, and an abort changes nothing.
C12_UpgradePaysDifference ==
    \A user \in Users, new_tier \in TIER_FREE..TIER_ENTERPRISE :
        LET has == contains(subs.subscriptions, user)
            old_tier == subs.subscriptions[user].tier
            price_diff == subs.tier_prices[new_tier] - subs.tier_prices[old_tier]
        IN
        \A payment_amount \in {0, subs.tier_prices[new_tier]}
                              \cup (IF has /\ new_tier > old_tier THEN Around(price_diff) ELSE {}) :
            LET r == upgrade_tier(subs, user, payment_amount, new_tier) IN
            /\ r.err = 0 <=> (has /\ new_tier > old_tier /\ payment_amount >= price_diff)
            /\ (has /\ new_tier > old_tier /\ payment_amount = price_diff - 1)
                  => r.err = SUB_E_INSUFFICIENT_PAYMENT
            /\ (has /\ new_tier <= old_tier) => r.err = SUB_E_INVALID_TIER
            /\ r.err # 0 => r.reg = subs
            /\ r.err = 0 =>
                  /\ r.reg.subscriptions[user] = [subs.subscriptions[user] EXCEPT !.tier = new_tier]
                  /\ r.reg.active_subscriptions[new_tier] = subs.active_subscriptions[new_tier] + 1
                  /\ r.reg.active_subscriptions[old_tier] = subs.active_subscriptions[old_tier] - 1

\* an upgrade committed for the price difference alone: the subscription's tier is
\* above the tier of its last payment and less than the new tier's price was paid
C12_Witness ==
    /\ result.op = "upgrade_tier"
    /\ result.err = 0
    /\ \E user \in DOMAIN subs.subscriptions :
          LET s == subs.subscriptions[user]
              last == s.payment_history[Len(s.payment_history)]
          IN  /\ s.tier > last.tier
              /\ treasury.subscription[user] - s.total_spent
                    = subs.tier_prices[s.tier] - subs.tier_prices[last.tier]

(***************************************************************************)
(* Properties of a subscriber's usage (SpecUsage)                          *)
(***************************************************************************)
\* C13: can_deploy is true exactly when the user has no subscription, or the clock
\* is not past end_date and deployments_used is below the tier's deployment limit;
\* it reads the registry and returns a boolean, nothing else.
C13_CanDeployIffFreeOrWithinLimits ==
    \A user \in Users, clock \in {now} \cup SubTimes :
        /\ can_deploy(subs, user, clock) \in BOOLEAN
        /\ can_deploy(subs, user, clock)
              <=> \/ ~contains(subs.subscriptions, user)
                  \/ /\ clock <= subs.subscriptions[user].end_date
                     /\ subs.subscriptions[user].deployments_used
                           < subs.deployment_limits[subs.subscriptions[user].tier]

\* a subscriber at the last moment of the period and below the limit may deploy,
\* while the other user has no subscription
C13_Witness ==
    /\ contains(subs.subscriptions, "u1")
    /\ ~contains(subs.subscriptions, "u2")
    /\ now = subs.subscriptions["u1"].end_date
    /\ subs.subscriptions["u1"].deployments_used = 9
    /\ can_deploy(subs, "u1", now)
    /\ can_deploy(subs, "u2", now)
    /\ ~can_deploy(subs, "u1", 4 * HalfMonth)

\* C14: deployments_used counts the committed record_deployment calls of the user
\* since the last committed subscribe or renew_subscription: such a call adds one,
\* a renewal sets it to 0, nothing else changes it, and record_deployment with a new
\* deployment id commits whatever the usage; so within a Starter period can_deploy
\* holds exactly until 10 deployments are recorded, and once false it becomes true
\* again only by a committed renew_subscription or upgrade_tier.
C14_UsageCountsRecordedDeployments ==
    [][ \A user \in Users :
          /\ (user \in DOMAIN trackers) =>
                \A deployment_id \in {Cardinality(trackers[user].deployment_history) + 1},
                   bandwidth_mb \in BandwidthMb :
                    record_deployment(subs, trackers[user], user, deployment_id,
                                      bandwidth_mb, now).err = 0
          /\ (~contains(subs.subscriptions, user) /\ contains(subs'.subscriptions, user)) =>
                /\ result'.op = "subscribe" /\ result'.err = 0
                /\ subs'.subscriptions[user].deployments_used = 0
          /\ contains(subs.subscriptions, user) =>
                LET old == subs.subscriptions[user]
                    new == subs'.subscriptions[user]
                    recorded == /\ result'.op = "record_deployment" /\ result'.err = 0
                                /\ trackers'[user] # trackers[user]
                    renewedNow == /\ result'.op = "renew_subscription" /\ result'.err = 0
                                  /\ new.payment_history # old.payment_history
                IN  /\ contains(subs'.subscriptions, user)
                    /\ recorded => new.deployments_used = old.deployments_used + 1
                    /\ renewedNow => new.deployments_used = 0
                    /\ (~recorded /\ ~renewedNow) => new.deployments_used = old.deployments_used
                    /\ (new.tier = TIER_STARTER /\ now' <= new.end_date) =>
                          (can_deploy(subs', user, now') <=> new.deployments_used < 10)
                    /\ (~can_deploy(subs, user, now) /\ can_deploy(subs', user, now')) =>
                          /\ result'.op \in {"renew_subscription", "upgrade_tier"}
                          /\ result'.err = 0
                          /\ \/ new.payment_history # old.payment_history
                             \/ subs.deployment_limits[new.tier] > subs.deployment_limits[old.tier]
      ]_vars

\* the 10th deployment of a Starter period has just been recorded and the
\* subscriber may no longer deploy
C14_Witness ==
    /\ result.op = "record_deployment"
    /\ result.err = 0
    /\ contains(subs.subscriptions, "u1")
    /\ subs.subscriptions["u1"].tier = TIER_STARTER
    /\ subs.subscriptions["u1"].deployments_used = 10
    /\ now <= subs.subscriptions["u1"].end_date
    /\ ~can_deploy(subs, "u1", now)

(***************************************************************************)
(* Further properties of the deployment registry (SpecReg)                 *)
(***************************************************************************)
\* the record a committed request appended
Created(r) == r.reg.deployments[Len(r.reg.deployments)]

\* C19: request_deployment gives the new record version 1 + the number of records the
\* registry already holds for the same user and repo_url, whatever their status and
\* type (failed and rollback records count); two requests in a row for a user and
\* repo_url without records get versions 1 and 2.
C19_VersionIsOnePlusStoredRecords ==
    \A user \in Users, repo_url \in Repos, estimated_wal \in EstimatedWal :
        LET first == request_deployment(registry, user, MIN_PAYMENT_USDC, repo_url,
                                        estimated_wal, now)
            second == request_deployment(first.reg, user, MIN_PAYMENT_USDC, repo_url,
                                         estimated_wal, now)
            stored == Len(RecordsOf(user, repo_url))
        IN  /\ first.err = 0 /\ second.err = 0
            /\ Created(first).version = 1 + stored
            /\ Created(second).version = 2 + stored
            /\ stored = 0 => (Created(first).version = 1 /\ Created(second).version = 2)

\* a request committed with version 2 after a record of the same user and repo_url
\* that failed
C19_Witness ==
    /\ result.op = "request_deployment"
    /\ result.err = 0
    /\ Len(registry.deployments) = 2
    /\ registry.deployments[1].status = STATUS_FAILED
    /\ registry.deployments[2].user = registry.deployments[1].user
    /\ registry.deployments[2].repo_url = registry.deployments[1].repo_url
    /\ registry.deployments[2].deployment_type = TYPE_REGULAR
    /\ registry.deployments[2].version = 2

\* C20: mark_processing of a record that is not Pending and mark_deployed of a record
\* that is not Processing (a Pending one in particular) abort with E_INVALID_STATUS
\* and leave the registry as it was; a committed mark_deployed sets status to
\* Deployed, walrus_site_id, actual_wal_used and deployed_at = now, nothing else.
C20_MarkAssertsStatus ==
    \A deployment_id \in DOMAIN registry.deployments :
        LET record == registry.deployments[deployment_id]
            p == mark_processing(registry, deployment_id)
        IN  /\ record.status # STATUS_PENDING =>
                  (p.err = E_INVALID_STATUS /\ p.reg = registry)
            /\ \A walrus_site_id \in SiteIds, actual_wal_used \in ActualWal :
                  LET d == mark_deployed(registry, deployment_id, walrus_site_id,
                                         actual_wal_used, now)
                  IN  IF record.status # STATUS_PROCESSING
                      THEN d.err = E_INVALID_STATUS /\ d.reg = registry
                      ELSE /\ d.err = 0
                           /\ d.reg = [registry EXCEPT !.deployments[deployment_id] =
                                         [record EXCEPT !.status = STATUS_DEPLOYED,
                                                        !.walrus_site_id = walrus_site_id,
                                                        !.actual_wal_used = actual_wal_used,
                                                        !.deployed_at = now]]

\* mark_deployed has just been refused with E_INVALID_STATUS while the registry holds
\* one record, still Pending
C20_Witness ==
    /\ result.op = "mark_deployed"
    /\ result.err = E_INVALID_STATUS
    /\ Len(registry.deployments) = 1
    /\ registry.deployments[1].status = STATUS_PENDING
    /\ registry.deployments[1].deployed_at = 0

(***************************************************************************)
(* Properties of the client's deployment calls                             *)
(***************************************************************************)
\* C16: in the checking step of deployWithContract, a balance below
\* calculateDeploymentCost(estimatedWal), or a balance that could not be read, ends
\* the call in 'failed' with the message "Insufficient USDC. Required: <amount>",
\* and that call builds, signs and submits no transaction.
C16_InsufficientBalanceEndsRun ==
    [][ (run.pc = "hookBalance" /\ run' # run) =>
          LET requiredAmount == calculateDeploymentCost(run.request[1].estimatedWal)
              stopped == /\ hook' = [isDeploying |-> FALSE, deploymentStatus |-> "failed",
                                     error |-> some(InsufficientMessage(requiredAmount))]
                         /\ run'.pc = "done"
                         /\ run'.result = some(Failure(InsufficientMessage(requiredAmount)))
                         /\ run'.tx = "none"
                         /\ chain' = chain
              goesOn == /\ hook'.deploymentStatus = "signing"
                        /\ run'.pc = "canDeploy"
          IN  /\ insufficient(none, requiredAmount)
              /\ \A usdcBalance \in BalanceReads(run.coins) \ {none} :
                    insufficient(usdcBalance, requiredAmount)
                       <=> totalBalance(run.coins) < requiredAmount
              /\ stopped \/ goesOn
              /\ totalBalance(run.coins) < requiredAmount => stopped
              /\ goesOn => \E usdcBalance \in BalanceReads(run.coins) :
                              ~insufficient(usdcBalance, requiredAmount)
      ]_vars

\* a call ended in 'failed' on a balance below the 5.000001 USDC required, without
\* a transaction
C16_Witness ==
    /\ run.call = "deployWithContract"
    /\ run.pc = "done"
    /\ run.tx = "none"
    /\ run.request # none
    /\ totalBalance(run.coins) < calculateDeploymentCost(run.request[1].estimatedWal)
    /\ hook.deploymentStatus = "failed"
    /\ hook.error = some("Insufficient USDC. Required: $5.00")
    /\ registry.deployments = <<>>

\* the statuses trackTransaction can come back with
TrackedStatuses == {"success", "failed", "processing", "pending"}

\* C17: the confirming step always ends: waitForTransaction asks for the status at
\* most MAX_RETRIES = 30 times, returns true on the first 'success', false on the
\* first 'failed', and false when the 30th answer is neither (trackTransaction
\* turns a throw into 'pending'); the hook then shows success for true and failed
\* for false.
C17_ConfirmingTerminates ==
    /\ [](run.pc = "confirming" => run.i < MAX_RETRIES)
    /\ [][ (run.pc = "confirming" /\ run' # run) =>
             /\ \A i \in 0..(MAX_RETRIES - 1), status \in TrackedStatuses :
                   waitForTransaction(i, status).returned =
                      IF status = "success" THEN some(TRUE)
                      ELSE IF status = "failed" THEN some(FALSE)
                      ELSE IF i = MAX_RETRIES - 1 THEN some(FALSE)
                      ELSE none
             /\ \/ /\ run'.pc = "confirming"
                   /\ run'.i = run.i + 1
                   /\ hook' = hook
                \/ /\ run'.pc # "confirming"
                   /\ run'.confirmed \in {some(TRUE), some(FALSE)}
                   /\ run'.confirmed = some(TRUE) => run.tx = "success"
                   /\ hook'.isDeploying = FALSE
                   /\ hook'.deploymentStatus
                         = IF run'.confirmed = some(TRUE) THEN "success" ELSE "failed"
         ]_vars
    /\ (run.pc = "confirming") ~> (run.pc # "confirming" /\ run.confirmed # none)

\* waitForTransaction gave up on a transaction that did succeed: the 30th answer, as
\* the 29 before it, was neither success nor failed, and the hook shows failed
C17_Witness ==
    /\ run.pc = "done"
    /\ run.tx = "success"
    /\ run.i = MAX_RETRIES - 1
    /\ run.confirmed = some(FALSE)
    /\ hook.deploymentStatus = "failed"
    /\ hook.error = some("Transaction failed to confirm")

(***************************************************************************)
(* The dialog and both calls of useDeployment                              *)
(***************************************************************************)
NextClient ==
    \/ ConnectWallet
    \/ OpenDialog
    \/ ReposFetched
    \/ SelectRepo
    \/ handleProceedToPayment
    \/ handleDeploy
    \/ UsdcGetBalance
    \/ UsdcGetCoins
    \/ UsdcSign
    \/ Poll
    \/ Backend
    \/ ShowSuccess
    \/ TryAgain
    \/ CloseDialog
    \/ deployWithContract(FlowRepos)
    \/ ContractHookBalance
    \/ ContractCanDeploy
    \/ ContractServiceBalance
    \/ ContractGetCoins
    \/ ContractSign
    \/ ContractGetEvents

SpecClient == Init /\ [][NextClient]_vars

\* how far along the workflow a deploymentStatus is
Rank(deploymentStatus) ==
    CASE deploymentStatus = "idle"       -> 0
      [] deploymentStatus = "checking"   -> 1
      [] deploymentStatus = "signing"    -> 2
      [] deploymentStatus = "processing" -> 3
      [] deploymentStatus = "confirming" -> 4
      [] deploymentStatus = "success"    -> 5
      [] deploymentStatus = "failed"     -> 5

\* the deploymentStatus a call wrote last before the await it is waiting at
LastWritten(r) ==
    CASE r.pc = "hookBalance" -> "checking"
      [] r.pc \in {"getBalance", "canDeploy", "serviceBalance", "getCoins", "sign"} -> "signing"
      [] r.pc = "getEvents" -> "processing"
      [] r.pc = "confirming" -> "confirming"

InFlight(r) ==
    r.pc \in {"hookBalance", "getBalance", "canDeploy", "serviceBalance", "getCoins",
              "sign", "getEvents", "confirming"}

\* C15: the statuses one call of deployWithUSDC or deployWithContract writes go
\* forward along checking, signing, processing, confirming, then success or failed
\* (failed from any of them): a call in flight never writes a status at or behind
\* the one it wrote last, and after writing success or failed it writes no more.
C15_StatusOnlyForward ==
    [][ /\ (InFlight(run) /\ run' # run) =>
              /\ hook'.deploymentStatus # hook.deploymentStatus =>
                    Rank(hook'.deploymentStatus) > Rank(LastWritten(run))
              /\ InFlight(run') =>
                    /\ hook'.deploymentStatus \in {hook.deploymentStatus, LastWritten(run')}
                    /\ Rank(LastWritten(run')) >= Rank(LastWritten(run))
              /\ ~InFlight(run') => hook'.deploymentStatus \in {"success", "failed"}
        /\ (~InFlight(run) /\ InFlight(run')) =>
              hook'.deploymentStatus = LastWritten(run')
        /\ (~InFlight(run) /\ ~InFlight(run') /\ hook'.deploymentStatus # hook.deploymentStatus) =>
              (run' = run /\ hook' = resetState)
      ]_vars

\* a call of deployWithContract went through every status and ended in success
C15_Witness ==
    /\ run.call = "deployWithContract"
    /\ run.pc = "done"
    /\ run.confirmed = some(TRUE)
    /\ run.i > 0
    /\ hook.deploymentStatus = "success"

(***************************************************************************)
(* Two overlapping calls of deployWithContract                             *)
(***************************************************************************)
\* a wallet whose first USDC coin pays for two deployments
DoubleCoins == { <<2 * calculateDeploymentCost(100)>> }

\* deployWithContract is called again while `run` is in flight
deployWithContractAgain(repos) ==
    /\ InFlight(run)
    /\ deployWithContractOf(other, other', repos, DoubleCoins)
    /\ UNCHANGED run

\* the steps of the first call, then those of the second
NextDouble ==
    \/ ConnectWallet
    \/ deployWithContractOf(run, run', FlowRepos, DoubleCoins) /\ UNCHANGED other
    \/ ContractHookBalance
    \/ ContractCanDeploy
    \/ ContractServiceBalance
    \/ ContractGetCoins
    \/ ContractSign
    \/ ContractGetEvents
    \/ Poll
    \/ deployWithContractAgain(FlowRepos)
    \/ ContractHookBalanceOf(other, other') /\ UNCHANGED run
    \/ ContractCanDeployOf(other, other') /\ UNCHANGED run
    \/ ContractServiceBalanceOf(other, other') /\ UNCHANGED run
    \/ ContractGetCoinsOf(other, other') /\ UNCHANGED run
    \/ ContractSignOf(other, other') /\ UNCHANGED run
    \/ ContractGetEventsOf(other, other') /\ UNCHANGED run
    \/ PollOf(other, other') /\ UNCHANGED run

SpecDouble == Init /\ [][NextDouble]_vars


\* the Pending records of one user and repository
PendingOf(user, repo_url) ==
    SelectSeq(RecordsOf(user, repo_url), LAMBDA d : d.status = STATUS_PENDING)

\* C18: nothing stops a double submission: with an account connected
\* deployWithContract starts whether or not a call is deploying, request_deployment
\* accepts a request whatever the registry holds, and once the transactions of two
\* calls for the same user and repoUrl have both succeeded the registry holds two
\* Pending records for them with versions v and v + 1.
C18_DoubleSubmissionAccepted ==
    /\ (wallet # none /\ InFlight(run)) => accepted(hook, wallet)
    /\ \A repo_url \in FlowRepos, estimated_wal \in EstimatedWal :
          request_deployment(registry, Account, calculateDeploymentCost(estimated_wal),
                             repo_url, estimated_wal, now).err = 0
    /\ (/\ run.tx = "success" /\ other.tx = "success"
        /\ run.account = other.account
        /\ run.request[1].repoUrl = other.request[1].repoUrl) =>
          LET pending == PendingOf(run.account[1], run.request[1].repoUrl)
          IN  /\ Len(pending) >= 2
              /\ \A n \in 1..(Len(pending) - 1) :
                    pending[n + 1].version = pending[n].version + 1

\* two calls are in flight at once, the transactions of both have succeeded, and the
\* registry holds versions 1 and 2 for the user and repository, both Pending
C18_Witness ==
    /\ InFlight(run) /\ InFlight(other)
    /\ run.tx = "success" /\ other.tx = "success"
    /\ Len(registry.deployments) = 2
    /\ \A id \in 1..2 :
          /\ registry.deployments[id].user = Account
          /\ registry.deployments[id].repo_url = "repoA"
          /\ registry.deployments[id].status = STATUS_PENDING
          /\ registry.deployments[id].version = id


(***************************************************************************)
(* Records, lists and counters of the deployment registry (SpecReg)        *)
(***************************************************************************)
\* C21: request_deployment with a payment below min_payment_usdc aborts with
\* E_INSUFFICIENT_PAYMENT and changes nothing; otherwise it adds exactly one record,
\* Pending, under an id no record had, appends that id to the end of the caller's id
\* list, adds 1 to total_deployments and the payment to total_usdc_collected, and
\* emits one DeploymentCreated event with the new id.
C21_RequestAddsOnePendingRecord ==
    \A user \in Users, repo_url \in Repos, estimated_wal \in EstimatedWal,
       payment_amount \in RegPayments \cup {0, 2 * MIN_PAYMENT_USDC} :
        LET r == request_deployment(registry, user, payment_amount, repo_url,
                                    estimated_wal, now)
            id == Created(r).deployment_id
        IN  IF payment_amount < registry.min_payment_usdc
            THEN r.err = E_INSUFFICIENT_PAYMENT /\ r.reg = registry /\ r.events = <<>>
            ELSE /\ r.err = 0
                 /\ Len(r.reg.deployments) = Len(registry.deployments) + 1
                 /\ SubSeq(r.reg.deployments, 1, Len(registry.deployments))
                       = registry.deployments
                 /\ ~contains(registry.deployments, id)
                 /\ r.reg.deployments[id] = Created(r)
                 /\ Created(r).status = STATUS_PENDING
                 /\ Created(r).user = user
                 /\ Created(r).usdc_paid = payment_amount
                 /\ get_user_deployments(r.reg, user)
                       = Append(get_user_deployments(registry, user), id)
                 /\ \A u \in Users \ {user} :
                       get_user_deployments(r.reg, u) = get_user_deployments(registry, u)
                 /\ get_total_deployments(r.reg) = get_total_deployments(registry) + 1
                 /\ get_total_revenue(r.reg) = get_total_revenue(registry) + payment_amount
                 /\ Len(r.events) = 1
                 /\ r.events[1].type = "DeploymentCreated"
                 /\ r.events[1].deployment_id = id

\* a second request of a user committed: its id is the second of the user's list
\* and the event carries it
C21_Witness ==
    /\ result.op = "request_deployment"
    /\ result.err = 0
    /\ Len(result.events) = 1
    /\ result.events[1].deployment_id = 2
    /\ get_user_deployments(registry, registry.deployments[2].user) = <<1, 2>>
    /\ get_total_deployments(registry) = 2
    /\ get_total_revenue(registry) = 2 * MIN_PAYMENT_USDC


\* a record that points at `parent` repeats what the parent was requested with
RollbackOf(record, parent) ==
    /\ record.deployment_type = TYPE_ROLLBACK
    /\ record.user = parent.user
    /\ record.repo_url = parent.repo_url
    /\ record.branch = parent.branch
    /\ record.commit_hash = parent.commit_hash
    /\ record.build_command = parent.build_command
    /\ record.output_dir = parent.output_dir
    /\ record.environment = parent.environment
    /\ record.estimated_wal = parent.estimated_wal

C23_ResultFieldsMatchStatus ==
    \A id \in DOMAIN registry.deployments :
        LET record == registry.deployments[id] IN
        /\ (record.actual_wal_used # 0 \/ record.deployed_at # 0)
              => record.status = STATUS_DEPLOYED
        /\ record.error_message # "" => record.status = STATUS_FAILED
        /\ record.status \in {STATUS_PENDING, STATUS_PROCESSING}
              => /\ record.actual_wal_used = 0
                 /\ record.deployed_at = 0
                 /\ record.error_message = ""


\* C24: get_user_deployments(user) is the list of the ids of all records of that
\* user, regular and rollback, each once and in creation order, and the empty list
\* for a user without records; every id of a list is the key of a stored record.
C24_UserListIsRecordsOfUser ==
    \A user \in Users :
        LET ids == get_user_deployments(registry, user)
            created == SelectSeq([id \in 1..Len(registry.deployments) |-> id],
                                 LAMBDA id : registry.deployments[id].user = user)
        IN  /\ ids = created
            /\ \A n \in 1..Len(ids) :
                  /\ contains(registry.deployments, ids[n])
                  /\ registry.deployments[ids[n]].deployment_id = ids[n]
                  /\ \A m \in 1..Len(ids) : m # n => ids[m] # ids[n]
            /\ (\A id \in DOMAIN registry.deployments : registry.deployments[id].user # user)
                  => ids = <<>>

\* one user's list holds a request and its rollback in that order while the other
\* user, without records, has the empty list
C24_Witness ==
    /\ get_user_deployments(registry, "u2") = <<1, 2>>
    /\ get_user_deployments(registry, "u1") = <<>>
    /\ registry.deployments[1].deployment_type = TYPE_REGULAR
    /\ registry.deployments[2].deployment_type = TYPE_ROLLBACK


(***************************************************************************)
(* Further properties of the subscription registry (SpecSub)               *)
(***************************************************************************)
\* C25: a subscription's total_spent is the sum of the amounts of its
\* payment_history, and every step leaves the payment_history of a subscription as
\* it was or appends at its end.
C25_HistoryAppendOnlySumsToTotalSpent ==
    /\ [](\A user \in DOMAIN subs.subscriptions :
            subs.subscriptions[user].total_spent
               = SumAmounts(subs.subscriptions[user].payment_history))
    /\ [][ \A user \in DOMAIN subs.subscriptions :
             /\ user \in DOMAIN subs'.subscriptions
             /\ LET old == subs.subscriptions[user].payment_history
                    new == subs'.subscriptions[user].payment_history
                IN  /\ Len(new) >= Len(old)
                    /\ SubSeq(new, 1, Len(old)) = old ]_vars

\* a renewal appended a second PaymentRecord of another time after the first
C25_Witness ==
    /\ result.op = "renew_subscription"
    /\ result.err = 0
    /\ \E user \in DOMAIN subs.subscriptions :
          LET s == subs.subscriptions[user] IN
          /\ Len(s.payment_history) = 2
          /\ s.payment_history[1].timestamp < s.payment_history[2].timestamp
          /\ s.total_spent = s.payment_history[1].amount + s.payment_history[2].amount
          /\ s.total_spent > 0

\* C26: every subscription has end_date > start_date, and no step (subscribe,
\* renew_subscription, upgrade_tier, cancel_subscription, record_deployment)
\* decreases the end_date of a subscription.
C26_EndDateAfterStartNeverDecreases ==
    /\ [](\A user \in DOMAIN subs.subscriptions :
            subs.subscriptions[user].end_date > subs.subscriptions[user].start_date)
    /\ [][ \A user \in DOMAIN subs.subscriptions :
             /\ user \in DOMAIN subs'.subscriptions
             /\ subs'.subscriptions[user].end_date >= subs.subscriptions[user].end_date
             /\ subs'.subscriptions[user].start_date = subs.subscriptions[user].start_date ]_vars

\* a subscription renewed within its period, ending two months after its start, was
\* cancelled before its end and keeps its end_date
C26_Witness ==
    /\ result.op = "cancel_subscription"
    /\ result.err = 0
    /\ \E user \in DOMAIN subs.subscriptions :
          LET s == subs.subscriptions[user] IN
          /\ s.end_date = s.start_date + 2 * SECONDS_IN_MONTH
          /\ ~s.auto_renew
          /\ now < s.end_date


\* usage an Enterprise subscription may have reached, and bandwidth of one deployment
EnterpriseUsage == {0, 100, 9998, 9999, 10000}
EnterpriseBandwidth == {1, 99999, 100000}

\* C27: the Enterprise tier has no usage limit: within the period can_deploy holds
\* whatever deployments_used is, and record_deployment emits no UsageExceeded
\* whatever the usage.  The registry violates it: init gives Enterprise the limits
\* 9999 deployments and 99999 MB, which can_deploy and record_deployment apply as
\* they do for the other tiers.
C27_EnterpriseHasNoLimit ==
    \A user \in DOMAIN subs.subscriptions :
        (subs.subscriptions[user].tier = TIER_ENTERPRISE
            /\ now <= subs.subscriptions[user].end_date) =>
        /\ \A used \in EnterpriseUsage :
              can_deploy([subs EXCEPT !.subscriptions[user].deployments_used = used],
                         user, now)
        /\ \A bandwidth_mb \in EnterpriseBandwidth :
              LET r == record_deployment(subs, trackers[user], user,
                          Cardinality(trackers[user].deployment_history) + 1,
                          bandwidth_mb, now)
              IN  /\ r.err = 0
                  /\ \A n \in DOMAIN r.events : r.events[n].type # "UsageExceeded"


(***************************************************************************)
(* Transactions on the payment processor                                   *)
(***************************************************************************)
\* the largest total of USDC the callers pay in, in halves of the default threshold
MaxProcessed == 3

HalfThreshold == AUTO_SWAP_THRESHOLD \div 2
PayAmounts == {0, HalfThreshold, AUTO_SWAP_THRESHOLD}
BatchPayments == {<<>>, <<HalfThreshold>>, <<HalfThreshold, AUTO_SWAP_THRESHOLD>>}
PayDeploymentIds == <<"d1", "d2">>
MockWal == {500}
WalAmounts == {200, 500, 600}
Thresholds == {HalfThreshold, AUTO_SWAP_THRESHOLD}
Treasuries == {"0x1234", "0x9abc"}

RECURSIVE SumCoins(_)
SumCoins(payments) ==
    IF payments = <<>> THEN 0 ELSE Head(payments) + SumCoins(Tail(payments))

WithinProcessed(amount) ==
    processor.total_usdc_processed + amount <= MaxProcessed * HalfThreshold

Pay(op, r) ==
    /\ processor' = r.processor
    /\ transfers' = r.transfers
    /\ result' = Effects(op, r)
    /\ UNCHANGED <<registry, subs, trackers, treasury, now, cetus_objects, client>>

NextPay ==
    \/ \E user \in Users, usdc_amount \in PayAmounts :
          /\ WithinProcessed(usdc_amount)
          /\ Pay("process_payment",
                 process_payment(processor, transfers, user, usdc_amount, "d1", now))
    \/ \E user \in Users, payments \in BatchPayments :
          /\ WithinProcessed(SumCoins(payments))
          /\ Pay("batch_process_payments",
                 batch_process_payments(processor, transfers, user, payments,
                                        PayDeploymentIds, now))
    \/ \E wal_amount \in MockWal :
          Pay("simulate_swap", simulate_swap(processor, transfers, wal_amount, now))
    \/ \E amount \in WalAmounts :
          Pay("transfer_wal_to_treasury",
              transfer_wal_to_treasury(processor, transfers, amount, now))
    \/ Pay("emergency_withdraw_usdc", emergency_withdraw_usdc(processor, transfers))
    \/ \E new_threshold \in Thresholds, new_treasury \in Treasuries :
          Pay("update_config",
              update_config(processor, transfers, new_threshold,
                            SLIPPAGE_TOLERANCE_BPS, new_treasury))

SpecPay == Init /\ [][NextPay]_vars

(***************************************************************************)
(* Transactions on the Cetus payment processor                             *)
(***************************************************************************)
\* the largest number of coins of the largest amount the callers deposit
MaxCetusCoins == 2

CetusAmounts == {1000, 2000}
CetusBatches == {<<1000>>, <<1000, 1000>>}
CetusPools == {"USDC_WAL"}
CetusFeeTiers == {FEE_TIER_2500, FEE_TIER_10000}
CetusSlippages == {MAX_SLIPPAGE_BPS, MAX_SLIPPAGE_BPS + 1}
CetusThresholds == {2000, AUTO_SWAP_THRESHOLD}
MinAmountsOut == {0, 196000}
LargestCoin == CHOOSE m \in CetusAmounts : \A a \in CetusAmounts : a <= m

\* the source token ever deposited: what the buffer holds and what left it
Deposited(c, t) == c.usdc_buffer + t.usdc_to_treasury + t.usdc_to_admin

WithinDeposited(amount) ==
    Deposited(cetus, cetus_transfers) + amount <= MaxCetusCoins * LargestCoin

Cetus(op, r) ==
    /\ cetus' = r.cetus
    /\ router' = r.router
    /\ cetus_transfers' = r.transfers
    /\ result' = Effects(op, r)
    /\ UNCHANGED <<registry, subs, trackers, treasury, now, processor, transfers, client>>

NextCetus ==
    \/ \E user \in {"u1"}, amount_in \in CetusAmounts, pool_name \in CetusPools,
          min_amount_out \in MinAmountsOut :
          /\ WithinDeposited(amount_in)
          /\ Cetus("swap_through_cetus",
                   swap_through_cetus(cetus, router, cetus_transfers, user, amount_in,
                                      pool_name, min_amount_out, now))
    \/ \E payments \in CetusBatches, pool_name \in CetusPools :
          /\ WithinDeposited(SumCoins(payments))
          /\ Cetus("batch_swap",
                   batch_swap(cetus, router, cetus_transfers, payments, pool_name, now))
    \/ \E pool_name \in CetusPools, fee_tier \in CetusFeeTiers :
          Cetus("add_pool_config",
                add_pool_config(cetus, router, cetus_transfers, pool_name, "0xp001",
                                fee_tier, now))
    \/ \E pool_name \in CetusPools, is_active \in BOOLEAN :
          Cetus("update_pool_config",
                update_pool_config(cetus, router, cetus_transfers, pool_name, is_active))
    \/ \E new_slippage_bps \in CetusSlippages :
          Cetus("update_slippage",
                update_slippage(cetus, router, cetus_transfers, new_slippage_bps))
    \/ \E new_threshold \in CetusThresholds :
          Cetus("update_threshold",
                update_threshold(cetus, router, cetus_transfers, new_threshold))
    \/ \E sender \in Users :
          Cetus("emergency_withdraw",
                emergency_withdraw(cetus, router, cetus_transfers, sender))

SpecCetus == Init /\ [][NextCetus]_vars


(***************************************************************************)
(* Properties of the payment processor (SpecPay)                           *)
(***************************************************************************)
\* C28: process_payment of a coin of value zero aborts and changes nothing; with a
\* positive value it commits, adds exactly the value to usdc_buffer and to
\* total_usdc_processed and emits one PaymentProcessed event.  The processor violates
\* the first part: process_payment has no assertion and commits a coin of value zero.
C28_ZeroPaymentRejected ==
    \A user \in Users, usdc_amount \in PayAmounts \cup {1} :
        LET r == process_payment(processor, transfers, user, usdc_amount, "d1", now) IN
        IF usdc_amount = 0
        THEN /\ r.err # 0
             /\ r.processor = processor
             /\ r.transfers = transfers
             /\ r.events = <<>>
        ELSE /\ r.err = 0
             /\ r.processor.usdc_buffer = processor.usdc_buffer + usdc_amount
             /\ r.processor.total_usdc_processed
                   = processor.total_usdc_processed + usdc_amount
             /\ Len(r.events) = 1
             /\ r.events[1].type = "PaymentProcessed"
             /\ r.events[1].usdc_amount = usdc_amount

\* C29: total_usdc_processed never decreases, and usdc_buffer is
\* total_usdc_processed minus the USDC that left the buffer, which simulate_swap
\* sends to the treasury and emergency_withdraw_usdc to its sender;
\* transfer_wal_to_treasury takes nothing from usdc_buffer.
C29_BufferIsProcessedMinusOutflows ==
    /\ [](/\ processor.usdc_buffer
               = processor.total_usdc_processed
                   - (transfers.usdc_to_treasury + transfers.usdc_to_sender)
          /\ processor.usdc_buffer >= 0
          /\ processor.wal_buffer >= 0)
    /\ [][processor'.total_usdc_processed >= processor.total_usdc_processed]_vars

\* C29 as stated: usdc_buffer is total_usdc_processed minus the amounts of
\* transfer_wal_to_treasury
C29_BufferIsProcessedMinusTransfersOut ==
    /\ [](processor.usdc_buffer
             = processor.total_usdc_processed - transfers.wal_to_treasury)
    /\ [][processor'.total_usdc_processed >= processor.total_usdc_processed]_vars

\* a batch of one coin committed after a swap, an emergency withdrawal and a WAL
\* transfer, and the buffer holds what has come in since
C29_Witness ==
    /\ result.op = "batch_process_payments"
    /\ result.err = 0
    /\ Len(result.events) = 1
    /\ transfers.usdc_to_treasury > 0
    /\ transfers.usdc_to_sender > 0
    /\ transfers.wal_to_treasury > 0
    /\ processor.usdc_buffer > 0
    /\ processor.usdc_buffer < processor.total_usdc_processed

\* C30: while usdc_buffer is below auto_swap_threshold, simulate_swap converts
\* nothing: no SwapExecuted event, and usdc_buffer and wal_buffer stay as they are.
\* The processor violates it: simulate_swap asserts only that usdc_buffer is not
\* empty, and the threshold test of process_payment has an empty body.
C30_SwapOnlyAtThreshold ==
    processor.usdc_buffer < processor.auto_swap_threshold =>
        \A wal_amount \in MockWal :
            LET r == simulate_swap(processor, transfers, wal_amount, now) IN
            /\ r.processor.usdc_buffer = processor.usdc_buffer
            /\ r.processor.wal_buffer = processor.wal_buffer
            /\ r.transfers = transfers
            /\ \A n \in DOMAIN r.events : r.events[n].type # "SwapExecuted"


\* the effect of one process_payment call per coin, in the order of the vector
RECURSIVE ProcessEach(_, _, _, _, _, _)
ProcessEach(p, t, user, payments, deployment_ids, clock) ==
    IF payments = <<>>
    THEN PayCommitted(p, t, <<>>)
    ELSE LET first == process_payment(p, t, user, Head(payments),
                                      Head(deployment_ids), clock)
             rest == ProcessEach(first.processor, first.transfers, user,
                                 Tail(payments), Tail(deployment_ids), clock)
         IN  PayCommitted(rest.processor, rest.transfers, first.events \o rest.events)

\* C32: batch_process_payments of n coins and n deployment ids commits for every
\* n >= 0 with the effect of n process_payment calls: usdc_buffer and
\* total_usdc_processed grow by the sum of the coins and each coin has one
\* PaymentProcessed event with the deployment id of its position.  The processor
\* violates it: the loop pops coins while it counts i up to the length of what is
\* left, so a batch of two coins processes one of them and aborts at destroy_empty.
C32_BatchIsEachPayment ==
    \A user \in Users, payments \in BatchPayments :
        LET deployment_ids == SubSeq(PayDeploymentIds, 1, Len(payments))
            batch == batch_process_payments(processor, transfers, user, payments,
                                            deployment_ids, now)
            each == ProcessEach(processor, transfers, user, payments,
                                deployment_ids, now)
        IN  /\ batch.err = 0
            /\ batch.processor = each.processor
            /\ batch.processor.usdc_buffer = processor.usdc_buffer + SumCoins(payments)
            /\ batch.processor.total_usdc_processed
                  = processor.total_usdc_processed + SumCoins(payments)
            /\ Len(batch.events) = Len(payments)
            /\ \A n \in 1..Len(payments) :
                  \E m \in DOMAIN batch.events :
                      /\ batch.events[m].usdc_amount = payments[n]
                      /\ batch.events[m].deployment_id = deployment_ids[n]


\* C33: cancel_subscription of a user with a subscription commits, sets auto_renew
\* to false and changes nothing else in the registry, so can_deploy answers as
\* before; a second call changes nothing more; for a user without a subscription it
\* aborts with E_SUBSCRIPTION_NOT_FOUND and changes nothing.
C33_CancelOnlyClearsAutoRenew ==
    \A user \in Users :
        LET r == cancel_subscription(subs, user, now) IN
        IF ~contains(subs.subscriptions, user)
        THEN r.err = SUB_E_SUBSCRIPTION_NOT_FOUND /\ r.reg = subs /\ r.events = <<>>
        ELSE LET old == subs.subscriptions[user]
                 new == r.reg.subscriptions[user]
                 again == cancel_subscription(r.reg, user, now)
             IN  /\ r.err = 0
                 /\ new.auto_renew = FALSE
                 /\ [new EXCEPT !.auto_renew = old.auto_renew] = old
                 /\ r.reg = [subs EXCEPT !.subscriptions[user].auto_renew = FALSE]
                 /\ \A clock \in {now} \cup SubTimes :
                       can_deploy(r.reg, user, clock) = can_deploy(subs, user, clock)
                 /\ again.err = 0
                 /\ again.reg = r.reg

\* a subscription with recorded usage and auto_renew set was cancelled within its
\* period, while the other user has no subscription
C33_Witness ==
    /\ result.op = "cancel_subscription"
    /\ result.err = 0
    /\ \E user \in DOMAIN subs.subscriptions :
          /\ result.events[1].user = user
          /\ ~subs.subscriptions[user].auto_renew
          /\ subs.subscriptions[user].deployments_used > 0
          /\ subs.subscriptions[user].bandwidth_used > 0
          /\ now <= subs.subscriptions[user].end_date
    /\ \E user \in Users : ~contains(subs.subscriptions, user)


(***************************************************************************)
(* Further properties of the contract deployment flow (SpecFlow)           *)
(***************************************************************************)
\* the place of an await of deployWithContract in the order the call reaches them
StepOrder(pc) ==
    CASE pc = "hookBalance"    -> 1
      [] pc = "canDeploy"      -> 2
      [] pc = "serviceBalance" -> 3
      [] pc = "getCoins"       -> 4
      [] pc = "sign"           -> 5
      [] pc = "getEvents"      -> 6
      [] pc = "confirming"     -> 7
      [] pc = "done"           -> 8
      [] OTHER                 -> 0

\* C34: a call of deployWithContract repeats only the confirmation poll: it goes
\* forward from await to await, staying only at the poll, so the wallet's
\* signAndExecute is reached at most once and the registry changes only in that
\* step; a rejected signing and a failed transaction end in 'failed' with no
\* second submission.
C34_OnlyThePollRepeats ==
    [][ /\ (InFlight(run) /\ run' # run) =>
              \/ StepOrder(run'.pc) > StepOrder(run.pc)
              \/ /\ run.pc = "confirming" /\ run'.pc = "confirming"
                 /\ run'.i = run.i + 1
                 /\ registry' = registry
        /\ registry' # registry => (run.pc = "sign" /\ run'.pc = "getEvents")
        /\ run'.pc = "sign" => run.pc \in {"getCoins", "sign"}
        /\ (run.pc = "sign" /\ run'.pc = "done") =>
              /\ hook'.deploymentStatus = "failed"
              /\ ~hook'.isDeploying
              /\ ~run'.result[1].success
              /\ registry' = registry
        /\ (run.pc \in {"getEvents", "confirming"} /\ run.tx = "failure" /\ run' # run) =>
              /\ registry' = registry
              /\ run'.pc \in {"confirming", "done"}
              /\ run'.pc = "done" => hook'.deploymentStatus = "failed" ]_vars

\* a call whose transaction failed polled more than once and ended in 'failed'
\* with nothing submitted again: the registry holds no record
C34_Witness ==
    /\ run.pc = "done"
    /\ run.call = "deployWithContract"
    /\ run.tx = "failure"
    /\ run.i > 1
    /\ hook.deploymentStatus = "failed"
    /\ registry.deployments = <<>>


\* estimates of WAL usage around the steps of the cost
CostInputs == {0, 1, 99, 100, 101, 199, 200, 12345, 200000}

\* C35: for an estimate that fits a u64, calculateDeploymentCost is the minimum
\* payment plus the whole hundredths of the estimate (10000 per 1000000, rounded
\* down), so it is at least the minimum payment and does not decrease when the
\* estimate grows; request_deployment with a coin of that value never aborts with
\* E_INSUFFICIENT_PAYMENT, and no transaction the flow submitted did.
C35_CostCoversMinimumPayment ==
    /\ \A estimatedWal \in CostInputs :
          LET cost == calculateDeploymentCost(estimatedWal)
              walCost == cost - MIN_PAYMENT_USDC
          IN  /\ cost >= MIN_PAYMENT_USDC
              /\ cost >= registry.min_payment_usdc
              /\ walCost * 1000000 <= estimatedWal * 10000
              /\ estimatedWal * 10000 < (walCost + 1) * 1000000
              /\ \A more \in CostInputs :
                    more >= estimatedWal => calculateDeploymentCost(more) >= cost
              /\ \A repo_url \in FlowRepos :
                    request_deployment(registry, Account, cost, repo_url,
                                       estimatedWal, now).err # E_INSUFFICIENT_PAYMENT
    /\ result.op = "request_deployment" => result.err # E_INSUFFICIENT_PAYMENT

\* the flow's transaction committed with a payment of the calculated cost, which is
\* above the minimum payment for the estimate of 100
C35_Witness ==
    /\ result.op = "request_deployment"
    /\ result.err = 0
    /\ run.tx = "success"
    /\ run.request[1].estimatedWal = 100
    /\ registry.deployments[1].usdc_paid = calculateDeploymentCost(100)
    /\ registry.deployments[1].usdc_paid = MIN_PAYMENT_USDC + 1


RECURSIVE SumPaid(_)
SumPaid(records) ==
    IF records = <<>> THEN 0 ELSE Head(records).usdc_paid + SumPaid(Tail(records))

\* C38: total_deployments is the number of stored records and total_usdc_collected
\* the sum of usdc_paid over all of them, regular and rollback.  The registry
\* violates the second: request_rollback_deployment stores usdc_paid and transfers
\* the coin to the treasury but adds nothing to total_usdc_collected.
C38_TotalsMatchRecords ==
    /\ get_total_deployments(registry) = Len(registry.deployments)
    /\ get_total_revenue(registry) = SumPaid(registry.deployments)


\* C39: for each tier the counter active_subscriptions[tier] is the number of
\* subscriptions of that tier, so the counters add up to the number of
\* subscriptions and none goes below zero; every subscription's tier is Starter,
\* Growth or Enterprise; and no step lowers the tier of a subscription.
C39_TierCountersMatchRecords ==
    /\ [](/\ \A tier \in TIER_FREE..TIER_ENTERPRISE :
                /\ subs.active_subscriptions[tier]
                      = Cardinality({user \in DOMAIN subs.subscriptions :
                                        subs.subscriptions[user].tier = tier})
                /\ subs.active_subscriptions[tier] >= 0
          /\ SumOver(subs.active_subscriptions, TIER_FREE..TIER_ENTERPRISE)
                = Cardinality(DOMAIN subs.subscriptions)
          /\ \A user \in DOMAIN subs.subscriptions :
                subs.subscriptions[user].tier \in TIER_STARTER..TIER_ENTERPRISE)
    /\ [][ \A user \in DOMAIN subs.subscriptions :
             /\ user \in DOMAIN subs'.subscriptions
             /\ subs'.subscriptions[user].tier >= subs.subscriptions[user].tier ]_vars

\* an upgrade moved one subscription from Starter to a higher tier while the other
\* user's subscription is counted in its own tier
C39_Witness ==
    /\ result.op = "upgrade_tier"
    /\ result.err = 0
    /\ Cardinality(DOMAIN subs.subscriptions) = 2
    /\ subs.active_subscriptions[TIER_STARTER] = 1
    /\ subs.active_subscriptions[TIER_GROWTH] = 1
    /\ subs.active_subscriptions[TIER_ENTERPRISE] = 0
    /\ \E user \in DOMAIN subs.subscriptions :
          /\ subs.subscriptions[user].tier = TIER_GROWTH
          /\ subs.subscriptions[user].total_spent = subs.tier_prices[TIER_STARTER]


(***************************************************************************)
(* The hook state under resetState (SpecClient)                            *)
(***************************************************************************)
\* C37: isDeploying holds exactly while deploymentStatus is checking, signing,
\* processing or confirming, and once resetState has written
\* {isDeploying: false, deploymentStatus: 'idle'} the state stays so until a call of
\* deployWithUSDC or deployWithContract starts.  The hook violates it: a call in
\* flight when the dialog is closed goes on after resetState and merges its next
\* deploymentStatus into the state resetState wrote.
C37_DeployingIffStatusInFlight ==
    /\ [](hook.isDeploying
             <=> hook.deploymentStatus \in {"checking", "signing", "processing", "confirming"})
    /\ [][ (~hook.isDeploying /\ hook.deploymentStatus = "idle" /\ InFlight(run))
              => (~hook'.isDeploying /\ hook'.deploymentStatus = "idle") ]_vars


(***************************************************************************)
(* deployment-storage: the deployment list kept in localStorage            *)
(***************************************************************************)
\* the most entries the list holds in the model
MaxStored == 2

\* Date.prototype.toISOString of a time in January 1970, counted in seconds
Pad2(n) == IF n < 10 THEN "0" \o ToString(n) ELSE ToString(n)
toISOString(time) ==
    "1970-01-" \o Pad2(time \div 86400 + 1) \o "T" \o Pad2((time % 86400) \div 3600)
       \o ":" \o Pad2((time % 3600) \div 60) \o ":" \o Pad2(time % 60) \o ".000Z"

\* the readings of the clock, and new Date(string) of a string toISOString wrote
StoreTimes == {HalfMonth, HalfMonth + 3661}
DateOf(string) == CHOOSE time \in StoreTimes : toISOString(time) = string

\* { ...deployment, ...updates }
Spread(deployment, updates) ==
    [key \in DOMAIN deployment \cup DOMAIN updates |->
        IF key \in DOMAIN updates THEN updates[key] ELSE deployment[key]]

\* JSON.stringify of a list of deployments: a Date is written as its toISOString
stringify(deployments) ==
    [n \in DOMAIN deployments |->
        [deployments[n] EXCEPT !.createdAt = toISOString(@)]]

getDeployments(item) ==
    IF item = none
    THEN <<>>
    ELSE [n \in DOMAIN item[1] |-> [item[1][n] EXCEPT !.createdAt = DateOf(@)]]

saveDeployments(deployments) == some(stringify(deployments))

\* addDeployment that puts the new entry behind the others
addDeploymentLast(item, deployment, id, time) ==
    saveDeployments(Append(getDeployments(item),
                           Spread(deployment, [id |-> id, createdAt |-> time])))

addDeployment(item, deployment, id, time) ==
    LET newDeployment == Spread(deployment, [id |-> id, createdAt |-> time])
        deployments == getDeployments(item)
        updatedDeployments == <<newDeployment>> \o deployments
    IN  saveDeployments(updatedDeployments)

updateDeployment(item, id, updates) ==
    LET deployments == getDeployments(item)
        updatedDeployments ==
            [n \in DOMAIN deployments |->
                IF deployments[n].id = id THEN Spread(deployments[n], updates)
                ELSE deployments[n]]
    IN  saveDeployments(updatedDeployments)

deleteDeployment(item, id) ==
    LET deployments == getDeployments(item)
        updatedDeployments == SelectSeq(deployments, LAMBDA deployment : deployment.id # id)
    IN  saveDeployments(updatedDeployments)

\* Math.random().toString(36).substr(2, 9): nothing keeps two ids apart
StoreIds == {"a1", "b2"}
NewDeployments ==
    { [name |-> "app", status |-> "pending", repo |-> "github.com/user/app"],
      [name |-> "site", status |-> "success", repo |-> "github.com/user/site",
       url |-> "https://site.com"] }
StoreUpdates ==
    { [status |-> "success", url |-> "https://app.com"],
      [status |-> "failed", createdAt |-> HalfMonth + 3661] }

NextStore ==
    \/ \E deployment \in NewDeployments, id \in StoreIds :
          /\ Len(getDeployments(storage)) < MaxStored
          /\ storage' = addDeployment(storage, deployment, id, now)
          /\ UNCHANGED <<chain, hook, modal, wallet, run, other>>
    \/ \E id \in StoreIds, updates \in StoreUpdates :
          /\ storage' = updateDeployment(storage, id, updates)
          /\ UNCHANGED <<chain, hook, modal, wallet, run, other>>
    \/ \E id \in StoreIds :
          /\ storage' = deleteDeployment(storage, id)
          /\ UNCHANGED <<chain, hook, modal, wallet, run, other>>
    \/ /\ storage # none
       /\ storage' = none
       /\ UNCHANGED <<chain, hook, modal, wallet, run, other>>
    \/ Tick(StoreTimes)

SpecStore == Init /\ [][NextStore]_vars


\* the number of entries of a list with the given id
Matching(deployments, id) ==
    Cardinality({n \in DOMAIN deployments : deployments[n].id = id})

MockOutput(amount_in, fee_tier) ==
    (amount_in - ((amount_in * fee_tier) \div 1000000)) * 100

\* C31: for every input amount and every pool fee tier, the quote's expected output,
\* the amount an executed swap records and the amount an automatic swap reports all
\* equal (inputAmount - fee) * 100 with fee = inputAmount * feeTier / 1_000_000 in
\* integer arithmetic, the fee being deducted exactly once.
C31_MockOutputDeductsFeeOnce ==
    \A pool_name \in DOMAIN cetus.pool_configs, amount_in \in CetusAmounts :
        LET fee_tier == cetus.pool_configs[pool_name].fee_tier
            quote == get_swap_quote(cetus, amount_in, pool_name)
            swap == swap_through_cetus(cetus, router, cetus_transfers, "u1", amount_in,
                                       pool_name, 0, now)
            auto == batch_swap([cetus EXCEPT !.usdc_buffer = 0,
                                             !.auto_swap_threshold = amount_in],
                               router, cetus_transfers, <<amount_in>>, pool_name, now)
        IN  /\ quote.err = 0 =>
                 quote.expected_amount_out = MockOutput(amount_in, fee_tier)
            /\ swap.err = 0 =>
                 /\ swap.events[1].amount_out = MockOutput(amount_in, fee_tier)
                 /\ swap.cetus.swap_history[Len(swap.cetus.swap_history)].amount_out
                      = MockOutput(amount_in, fee_tier)
            /\ auto.err = 0 =>
                 auto.events[1].amount_out = MockOutput(amount_in, fee_tier)

\* C40: after any sequence of swap_through_cetus and batch_swap calls,
\* total_usdc_processed equals the total amount of source token ever deposited into
\* the processor, each deposited unit counted exactly once, and the router's
\* total_volume, which counts the swapped deposits only, never exceeds that amount.
C40_ProcessedEqualsDeposited ==
    /\ cetus.total_usdc_processed = Deposited(cetus, cetus_transfers)
    /\ router.total_volume <= Deposited(cetus, cetus_transfers)

====
